---- MODULE Spec2Model ----
(***************************************************************************)
(* GrowPod: the recurring job scheduler / executor of                      *)
(* hydroponics_console.py (schedule registry, APScheduler cron jobs,       *)
(* execute_schedule with its 10-second retry timers and auto-off timers,   *)
(* the zeroconf availability callbacks) and the recurrence materializer of *)
(* calendar_scheduler.py (the float day walk over the stages of a profile).*)
(***************************************************************************)
EXTENDS Integers, Sequences, FiniteSets, TLC

VARIABLES
    devices,     \* global `devices`: the names of the devices currently known
    schedules,   \* self.schedules: name -> definition, or NoEntry
    order,       \* insertion order of the keys of self.schedules
    jobs,        \* the job store of `scheduler`: a set of cron jobs
    threads,     \* running invocations of execute_schedule
    timers,      \* started threading.Timer objects that have not fired yet
    nfires,      \* number of cron trigger fires so far
    hist,        \* per fire: what the executions of that fire have done (history)
    call,        \* the observed call of schedule_job and how it ended
    mat,         \* the recurrence materializer (profile, walk position, store)
    file,        \* schedules.json: what save_schedules wrote last
    log,         \* the rows of event_execution_log (calendar_scheduler.py)
    clock,       \* the wall clock, counted in the time slots of the model
    pcs          \* where the main thread and the discovery thread stand

vars == <<devices, schedules, order, jobs, threads, timers, nfires, hist, call, mat, file, log, clock, pcs>>

schedVars == <<devices, schedules, order, jobs, threads, timers, nfires, hist, call, file, log, clock, pcs>>

None == "None"

\* a key that is not in a dict, a call that has not happened
NoEntry == [none |-> TRUE]

\* a thread that is outside every handler
Idle == [pc |-> "idle"]

AllIdle == [main |-> Idle, disc |-> Idle]

(***************************************************************************)
(* Bounds of the model.                                                    *)
(***************************************************************************)
MaxFires == 2

\* the names of the food schedules apply_schedule creates
FoodNames == {"food_dose_1", "food_dose_2"}

Names == {"s1", "s2"} \cup FoodNames

Devices == {"podA", "podB"}

\* the names and devices the operator creates routine schedules for
RoutineNames == {"s1"}

RoutineDevices == {"podA"}

(***************************************************************************)
(* Strings are sequences of characters where the code parses them.         *)
(***************************************************************************)
DigitVal == [c \in {"0", "1", "2", "3", "4", "5", "6", "7", "8", "9"} |->
               CASE c = "0" -> 0 [] c = "1" -> 1 [] c = "2" -> 2 [] c = "3" -> 3
                 [] c = "4" -> 4 [] c = "5" -> 5 [] c = "6" -> 6 [] c = "7" -> 7
                 [] c = "8" -> 8 [] c = "9" -> 9]

IsDigits(s) == Len(s) \in {1, 2} /\ \A i \in 1..Len(s) : s[i] \in DOMAIN DigitVal

NumVal(s) == IF Len(s) = 1 THEN DigitVal[s[1]] ELSE 10 * DigitVal[s[1]] + DigitVal[s[2]]

\* datetime.strptime(start_time_str, "%H:%M").time(): one or two digits of hour
\* (0..23), a colon, one or two digits of minute (0..59), nothing else.
\* The result is ValueError or the parsed time.
ValueError == [error |-> "ValueError"]

strptime(s) ==
    LET colons == {i \in 1..Len(s) : s[i] = ":"}
    IN  IF Cardinality(colons) # 1 THEN ValueError
        ELSE LET p == CHOOSE i \in colons : TRUE
                 h == SubSeq(s, 1, p - 1)
                 m == SubSeq(s, p + 1, Len(s))
             IN  IF IsDigits(h) /\ IsDigits(m) /\ NumVal(h) <= 23 /\ NumVal(m) <= 59
                 THEN [hour |-> NumVal(h), minute |-> NumVal(m)]
                 ELSE ValueError

\* str.lower() on the day names the model uses
lower(s) ==
    CASE s = "Friday" -> "friday"
      [] s = "FRIDAY" -> "friday"
      [] s = "Monday" -> "monday"
      [] s = "Funday" -> "funday"
      [] OTHER -> s

days_map == [monday |-> "mon", tuesday |-> "tue", wednesday |-> "wed", thursday |-> "thu",
             friday |-> "fri", saturday |-> "sat", sunday |-> "sun"]

\* the actuators turn_off_actuators sets to 0
OffActuators == {"airpump", "sourcepump", "planterpump", "drainpump", "led"}

RetryDelay == 10

(***************************************************************************)
(* Schedule definitions.                                                   *)
(***************************************************************************)
T0900 == <<"0", "9", ":", "0", "0">>

T1830 == <<"1", "8", ":", "3", "0">>

T9am == <<"9", "a", "m">>

T2500 == <<"2", "5", ":", "0", "0">>

T95 == <<"9", ":", "5">>

ActPumps == [airpump |-> [value |-> 80], food_dose |-> [duration_ms |-> 1000]]

ActLed == [led |-> [value |-> 50]]

ActRoutine == [routine |-> [command |-> "empty_pod"]]

Details(dev, st, dur, freq, day, acts) ==
    [device_name |-> dev, start_time |-> st, duration_minutes |-> dur,
     frequency |-> freq, day_of_week |-> day, actions |-> acts]

\* what the routine tab's create_schedule builds for the selected device: duration
\* 0, a routine action, a checked time, the day of the drop-down for weekly
RoutineDefs(dev) ==
    { Details(dev, T1830, 0, "weekly", "Monday", ActRoutine) }

\* what schedules.json may hold when the console starts: a daily schedule of podA
\* with an auto-off, a weekly one without its day, a daily schedule of podB
FileA == Details("podA", T0900, 10, "daily", None, ActPumps)

FileNoDay == Details("podA", T0900, 0, "weekly", None, ActRoutine)

FileB == Details("podB", T0900, 10, "daily", None, ActLed)

\* definitions schedule_job rejects: a start time that is not %H:%M, a weekly day
\* that is no weekday name
FileBadTime == Details("podA", T9am, 10, "daily", None, ActLed)

FileBadDay == Details("podA", T0900, 10, "weekly", "funday", ActLed)

Entry(n, d) == [name |-> n, details |-> d]

Files ==
    { <<>>, <<Entry("s1", FileA)>>, <<Entry("s2", FileB)>>,
      <<Entry("s1", FileA), Entry("s2", FileB)>>,
      <<Entry("s1", FileNoDay), Entry("s2", FileA)>>,
      <<Entry("s1", FileA), Entry("s2", FileA)>>,
      <<Entry("s1", FileBadTime), Entry("s2", FileBadDay)>> }

(***************************************************************************)
(* schedule_job: validation, then scheduler.add_job(..., id=name,          *)
(* replace_existing=True).                                                 *)
(***************************************************************************)
\* how a call of schedule_job ends: "invalid_time" and "invalid_day" are the two
\* "Skipping." returns, "AttributeError" is day_of_week.lower() on None,
\* "scheduled" is a call that reached add_job.
ScheduleJobResult(details) ==
    IF strptime(details.start_time) = ValueError THEN "invalid_time"
    ELSE IF details.frequency = "weekly"
         THEN IF details.day_of_week = None THEN "AttributeError"
              ELSE IF lower(details.day_of_week) \notin DOMAIN days_map THEN "invalid_day"
              ELSE "scheduled"
         ELSE "scheduled"

\* schedule_job that gives a weekly schedule the trigger of a daily one
JobOf_EveryDay(name, details) ==
    [id |-> name,
     trigger |-> [day_of_week |-> None,
                  hour |-> strptime(details.start_time).hour,
                  minute |-> strptime(details.start_time).minute],
     args |-> [name |-> name, device_name |-> details.device_name,
               actions |-> details.actions, duration |-> details.duration_minutes]]

\* the cron job schedule_job builds: its trigger and the arguments its wrapper
\* closes over
JobOf(name, details) ==
    [id |-> name,
     trigger |-> [day_of_week |-> IF details.frequency = "weekly"
                                  THEN days_map[lower(details.day_of_week)] ELSE None,
                  hour |-> strptime(details.start_time).hour,
                  minute |-> strptime(details.start_time).minute],
     args |-> [name |-> name, device_name |-> details.device_name,
               actions |-> details.actions, duration |-> details.duration_minutes]]

\* add_job that does not replace the job stored under the same id
add_job_keep(js, job) == js \cup {job}

add_job(js, job) == {j \in js : j.id # job.id} \cup {job}

\* scheduler.remove_job(name); a JobLookupError is caught by every caller modelled here
remove_job(js, name) == {j \in js : j.id # name}

\* schedule_job that schedules a job at 00:00 every day for a definition it cannot
\* parse
schedule_job_unchecked(js, name, details) ==
    IF ScheduleJobResult(details) = "scheduled" THEN add_job(js, JobOf(name, details))
    ELSE add_job(js, [id |-> name,
                      trigger |-> [day_of_week |-> None, hour |-> 0, minute |-> 0],
                      args |-> [name |-> name, device_name |-> details.device_name,
                                actions |-> details.actions,
                                duration |-> details.duration_minutes]])

schedule_job(js, name, details) ==
    IF ScheduleJobResult(details) = "scheduled" THEN add_job(js, JobOf(name, details)) ELSE js

Call(name, details) == [name |-> name, details |-> details, result |-> ScheduleJobResult(details)]

Registered == {n \in Names : schedules[n] # NoEntry}

\* the JSON document of a registry: the keys in their insertion order
Document(reg, ord) == [schedules |-> reg, order |-> ord]

\* schedules.json cannot be opened for writing
Unwritable(f) == "unwritable" \in DOMAIN f

\* save_schedules that writes nothing
save_schedules_stale(reg, ord) == file

\* save_schedules: json.dump of self.schedules into the file opened with 'w'; when
\* open raises, the exception is caught and printed and the file stays as it was
save_schedules(reg, ord) == IF Unwritable(file) THEN file ELSE Document(reg, ord)

\* device_added that schedules nothing
device_added_none(dev, i, js) == js

(***************************************************************************)
(* Device availability: HydroponicsServiceListener and device_added /      *)
(* device_removed.                                                         *)
(***************************************************************************)
\* the loop of device_added from position i of the registry on; an exception of
\* schedule_job leaves the loop
RECURSIVE device_added(_, _, _)
device_added(dev, i, js) ==
    IF i > Len(order) THEN js
    ELSE LET n == order[i]
             d == schedules[n]
         IN  IF d.device_name # dev THEN device_added(dev, i + 1, js)
             ELSE IF ScheduleJobResult(d) = "AttributeError" THEN js
                  ELSE device_added(dev, i + 1, schedule_job(js, n, d))

HasJob(js, name) == \E j \in js : j.id = name

\* device_removed that leaves its loop at the first remove_job that fails
device_removed_abort(dev, js) ==
    LET bound == SelectSeq(order, LAMBDA n : schedules[n].device_name = dev)
        done == {bound[i] : i \in {k \in 1..Len(bound) : \A m \in 1..k : HasJob(js, bound[m])}}
    IN  {j \in js : j.id \notin done}

\* device_removed that removes every job
device_removed_all(dev, js) == {}

\* device_removed: remove_job for every schedule of the registry bound to dev; a
\* remove_job that fails is printed and the loop goes on
device_removed(dev, js) ==
    {j \in js : ~(j.id \in Registered /\ schedules[j.id].device_name = dev)}

AddService(dev) ==
    /\ dev \notin devices
    /\ devices' = devices \cup {dev}
    /\ jobs' = device_added(dev, 1, jobs)
    /\ UNCHANGED <<schedules, order, threads, timers, nfires, hist, call, mat, file, log, clock, pcs>>

\* timers bound to the removed device are marked (`stale`, a history field)
RemoveService(dev) ==
    /\ dev \in devices
    /\ devices' = devices \ {dev}
    /\ jobs' = device_removed(dev, jobs)
    /\ timers' = {IF t.args.device_name = dev THEN [t EXCEPT !.stale = TRUE] ELSE t : t \in timers}
    /\ UNCHANGED <<schedules, order, threads, nfires, hist, call, mat, file, log, clock, pcs>>

Rescan ==
    /\ devices # {}
    /\ devices' = {}
    /\ UNCHANGED <<schedules, order, jobs, threads, timers, nfires, hist, call, mat, file, log, clock, pcs>>

(***************************************************************************)
(* Operator commands.                                                      *)
(***************************************************************************)
Store(name, details) ==
    /\ schedules' = [schedules EXCEPT ![name] = details]
    /\ order' = IF schedules[name] = NoEntry THEN Append(order, name) ELSE order

\* create_schedule of the routine tab with `dev` selected
CreateRoutine(name, dev, details) ==
    /\ dev \in devices
    /\ Store(name, details)
    /\ jobs' = schedule_job(jobs, name, details)
    /\ file' = save_schedules(schedules', order')
    /\ UNCHANGED <<devices, threads, timers, nfires, hist, call, mat, log, clock, pcs>>

DeleteSchedule(name) ==
    /\ schedules[name] # NoEntry
    /\ jobs' = remove_job(jobs, name)
    /\ schedules' = [schedules EXCEPT ![name] = NoEntry]
    /\ order' = SelectSeq(order, LAMBDA n : n # name)
    /\ file' = save_schedules(schedules', order')
    /\ UNCHANGED <<devices, threads, timers, nfires, hist, call, mat, log, clock, pcs>>

(***************************************************************************)
(* Execution: the cron trigger, execute_schedule, the retry timer and the  *)
(* auto-off timer.                                                         *)
(***************************************************************************)
Thread(fire, args, origin, stale) ==
    [fire |-> fire, args |-> args, origin |-> origin, pc |-> "check", stale |-> stale]

Timer(kind, fire, args, delay) ==
    [kind |-> kind, fire |-> fire, args |-> args, delay |-> delay, stale |-> FALSE]

\* the cron trigger of job j fires: the executor runs execute_schedule_wrapper on a
\* pool thread unless an instance of the job is still running (max_instances = 1)
TriggerFire(j) ==
    /\ j \in jobs
    /\ nfires < MaxFires
    /\ ~\E t \in threads : t.origin = "cron" /\ t.args.name = j.id
    /\ nfires' = nfires + 1
    /\ threads' = threads \cup {Thread(nfires + 1, j.args, "cron", FALSE)}
    /\ hist' = Append(hist, [name |-> j.id, device |-> j.args.device_name, absent |-> FALSE,
                             dispatched |-> 0, sent |-> {}, failed |-> {}, crashed |-> 0,
                             offs |-> 0, offSent |-> {}, offFailed |-> {}, stale |-> 0])
    /\ UNCHANGED <<devices, schedules, order, jobs, timers, call, mat, file, log, clock, pcs>>

\* execute_schedule without the `return` after starting the retry timer
ExecCheck_NoReturn(t) ==
    /\ t \in threads /\ t.pc = "check"
    /\ threads' = (threads \ {t}) \cup {[t EXCEPT !.pc = "dispatch"]}
    /\ IF t.args.device_name \notin devices
       THEN /\ timers' = timers \cup {Timer("retry", t.fire, t.args, RetryDelay)}
            /\ hist' = [hist EXCEPT ![t.fire].absent = TRUE]
       ELSE UNCHANGED <<timers, hist>>
    /\ UNCHANGED <<devices, schedules, order, jobs, nfires, call, mat, file, log, clock, pcs>>

\* execute_schedule up to the availability test: absent, start the retry timer and
\* return; present, go on
ExecCheck(t) ==
    /\ t \in threads /\ t.pc = "check"
    /\ IF t.args.device_name \notin devices
       THEN /\ timers' = timers \cup {Timer("retry", t.fire, t.args, RetryDelay)}
            /\ threads' = threads \ {t}
            /\ hist' = [hist EXCEPT ![t.fire].absent = TRUE]
       ELSE /\ threads' = (threads \ {t}) \cup {[t EXCEPT !.pc = "dispatch"]}
            /\ UNCHANGED <<timers, hist>>
    /\ UNCHANGED <<devices, schedules, order, jobs, nfires, call, mat, file, log, clock, pcs>>

\* `for actuator, command in actions.items()`: the order of the keys of the
\* actions the model uses
items(actions) ==
    SelectSeq(<<"airpump", "sourcepump", "planterpump", "drainpump", "led", "food_dose", "routine">>,
              LAMBDA a : a \in DOMAIN actions)

\* the actuators a loop attempts that leaves at the first POST that raises
AttemptedUntilFailure(actions, fails) ==
    LET its == items(actions)
    IN  {its[i] : i \in {k \in 1..Len(its) : \A m \in 1..(k - 1) : its[m] \notin fails}}

\* the actuators the loop of execute_schedule attempts when the POSTs of `fails`
\* raise: the try/except is inside the loop, every pair is attempted
Attempted(actions, fails) == {items(actions)[i] : i \in 1..Len(items(actions))}

\* execute_schedule that starts the auto-off timer whatever the duration
Dispatch_AlwaysOff(t, failsets) ==
    /\ t \in threads /\ t.pc = "dispatch"
    /\ threads' = threads \ {t}
    /\ IF t.args.device_name \notin devices
       THEN /\ hist' = [hist EXCEPT ![t.fire].crashed = @ + 1]
            /\ UNCHANGED timers
       ELSE /\ \E fails \in failsets :
                 hist' = [hist EXCEPT ![t.fire].dispatched = @ + 1,
                                      ![t.fire].sent = @ \cup Attempted(t.args.actions, fails),
                                      ![t.fire].failed = @ \cup fails,
                                      ![t.fire].stale = @ + (IF t.stale THEN 1 ELSE 0)]
            /\ timers' = timers \cup {Timer("off", t.fire, t.args, t.args.duration * 60)}
    /\ UNCHANGED <<devices, schedules, order, jobs, nfires, call, mat, file, log, clock, pcs>>

\* execute_schedule that removes the schedule's job when a POST raised
Dispatch_DisableOnFailure(t, failsets) ==
    /\ t \in threads /\ t.pc = "dispatch"
    /\ threads' = threads \ {t}
    /\ IF t.args.device_name \notin devices
       THEN /\ hist' = [hist EXCEPT ![t.fire].crashed = @ + 1]
            /\ UNCHANGED <<timers, jobs>>
       ELSE /\ \E fails \in failsets :
                 /\ hist' = [hist EXCEPT ![t.fire].dispatched = @ + 1,
                                         ![t.fire].sent = @ \cup Attempted(t.args.actions, fails),
                                         ![t.fire].failed = @ \cup fails,
                                         ![t.fire].stale = @ + (IF t.stale THEN 1 ELSE 0)]
                 /\ jobs' = IF fails = {} THEN jobs ELSE remove_job(jobs, t.args.name)
            /\ timers' = IF t.args.duration > 0
                         THEN timers \cup {Timer("off", t.fire, t.args, t.args.duration * 60)}
                         ELSE timers
    /\ UNCHANGED <<devices, schedules, order, nfires, call, mat, file, log, clock, pcs>>

\* the rest of execute_schedule: devices[device_name] (KeyError when the device
\* went away since the test), a command per actuator (the POSTs of `fails` raise:
\* caught and printed), the auto-off timer
Dispatch(t, failsets) ==
    /\ t \in threads /\ t.pc = "dispatch"
    /\ threads' = threads \ {t}
    /\ IF t.args.device_name \notin devices
       THEN /\ hist' = [hist EXCEPT ![t.fire].crashed = @ + 1]
            /\ UNCHANGED timers
       ELSE /\ \E fails \in failsets :
                 hist' = [hist EXCEPT ![t.fire].dispatched = @ + 1,
                                      ![t.fire].sent = @ \cup Attempted(t.args.actions, fails),
                                      ![t.fire].failed = @ \cup fails,
                                      ![t.fire].stale = @ + (IF t.stale THEN 1 ELSE 0)]
            /\ timers' = IF t.args.duration > 0
                         THEN timers \cup {Timer("off", t.fire, t.args, t.args.duration * 60)}
                         ELSE timers
    /\ UNCHANGED <<devices, schedules, order, jobs, nfires, call, mat, file, log, clock, pcs>>

\* in the scheduler's specification the POSTs that raise are not recorded
ExecDispatch(t) == Dispatch(t, {{}})

\* the outcomes of the POSTs of a loop over `keys` the model follows: none raises,
\* the first one raises, all raise
Raising(keys) ==
    {{}, {keys[i] : i \in 1..Len(keys)}} \cup (IF Len(keys) > 0 THEN {{keys[1]}} ELSE {})

ExecDispatchRaising(t) == Dispatch(t, Raising(items(t.args.actions)))

\* the 10-second timer fires: execute_schedule runs again on the timer's thread
RetryTimerFire(tm) ==
    /\ tm \in timers /\ tm.kind = "retry"
    /\ timers' = timers \ {tm}
    /\ threads' = threads \cup {Thread(tm.fire, tm.args, "timer", tm.stale)}
    /\ UNCHANGED <<devices, schedules, order, jobs, nfires, hist, call, mat, file, log, clock, pcs>>

\* turn_off_actuators that sets every actuator with an off state to 0
OffTargets_AllOff(args) == OffActuators

\* turn_off_actuators: value 0 to every actuator of the actions that has an off
\* state, through _post_actuator_command (which returns when the device is absent)
OffTargets(args) == (DOMAIN args.actions) \cap OffActuators

\* the auto-off timer that starts a retry timer when the device is absent
TurnOff_Retry(tm, failsets) ==
    /\ tm \in timers /\ tm.kind = "off"
    /\ IF tm.args.device_name \in devices
       THEN /\ timers' = timers \ {tm}
            /\ \E fails \in failsets :
                 hist' = [hist EXCEPT ![tm.fire].offs = @ + 1,
                                      ![tm.fire].offSent = @ \cup OffTargets(tm.args),
                                      ![tm.fire].offFailed = @ \cup fails,
                                      ![tm.fire].stale = @ + (IF tm.stale /\ OffTargets(tm.args) # {}
                                                              THEN 1 ELSE 0)]
       ELSE /\ timers' = (timers \ {tm}) \cup {[tm EXCEPT !.delay = RetryDelay]}
            /\ hist' = [hist EXCEPT ![tm.fire].offs = @ + 1]
    /\ UNCHANGED <<devices, schedules, order, jobs, threads, nfires, call, mat, file, log, clock, pcs>>

\* the auto-off timer fires: turn_off_actuators runs once on the timer's thread;
\* a POST of _post_actuator_command that raises (`fails`) is caught and printed
TurnOff(tm, failsets) ==
    /\ tm \in timers /\ tm.kind = "off"
    /\ timers' = timers \ {tm}
    /\ IF tm.args.device_name \in devices
       THEN \E fails \in failsets :
              hist' = [hist EXCEPT ![tm.fire].offs = @ + 1,
                                   ![tm.fire].offSent = @ \cup OffTargets(tm.args),
                                   ![tm.fire].offFailed = @ \cup fails,
                                   ![tm.fire].stale = @ + (IF tm.stale /\ OffTargets(tm.args) # {}
                                                           THEN 1 ELSE 0)]
       ELSE hist' = [hist EXCEPT ![tm.fire].offs = @ + 1]
    /\ UNCHANGED <<devices, schedules, order, jobs, threads, nfires, call, mat, file, log, clock, pcs>>

OffTimerFire(tm) == TurnOff(tm, {{}})

OffTimerFireRaising(tm) ==
    TurnOff(tm, Raising(SelectSeq(items(tm.args.actions), LAMBDA a : a \in OffTargets(tm.args))))

(***************************************************************************)
(* The scheduler's specification.                                          *)
(***************************************************************************)
\* hist[f], per cron fire f: the schedule name and device; absent: an execution
\* found the device absent; dispatched: executions that sent the actions; sent: the
\* actuators a command was attempted for; failed: the actuators whose POST raised;
\* crashed: executions ended by the KeyError; offs: runs of turn_off_actuators;
\* offSent: the actuators it attempted to set to 0; offFailed: those whose POST
\* raised; stale: commands caused by a timer that was pending when its device was
\* removed.
Fires == DOMAIN hist

MatIdle == [phase |-> "idle"]

\* HydroponicsConsole.__init__: load_schedules reads schedules.json before the
\* discovery starts, so no device is known and no job is scheduled
Init ==
    /\ devices = {}
    /\ \E f \in Files :
         /\ order = [i \in 1..Len(f) |-> f[i].name]
         /\ schedules = [n \in Names |->
                           IF \E i \in 1..Len(f) : f[i].name = n
                           THEN (CHOOSE e \in {f[i] : i \in 1..Len(f)} : e.name = n).details
                           ELSE NoEntry]
    /\ jobs = {}
    /\ threads = {}
    /\ timers = {}
    /\ nfires = 0
    /\ hist = <<>>
    /\ call = NoEntry
    /\ mat = MatIdle
    /\ file = Document(schedules, order)
    /\ log = <<>>
    /\ clock = 0
    /\ pcs = AllIdle

Next ==
    \/ \E dev \in Devices : AddService(dev)
    \/ \E dev \in Devices : RemoveService(dev)
    \/ Rescan
    \/ \E n \in RoutineNames, dev \in RoutineDevices : \E d \in RoutineDefs(dev) : CreateRoutine(n, dev, d)
    \/ \E n \in Names : DeleteSchedule(n)
    \/ \E j \in jobs : TriggerFire(j)
    \/ \E t \in threads : ExecCheck(t)
    \/ \E t \in threads : ExecDispatch(t)
    \/ \E tm \in timers : RetryTimerFire(tm)
    \/ \E tm \in timers : OffTimerFire(tm)

Spec == Init /\ [][Next]_vars

\* the executions of a cron fire run and its timers fire: pool and timer threads
\* are scheduled by the operating system
FairSpec ==
    /\ Spec
    /\ \A f \in 1..MaxFires :
         /\ WF_vars(\E t \in threads : t.fire = f /\ ExecCheck(t))
         /\ WF_vars(\E t \in threads : t.fire = f /\ ExecDispatch(t))
         /\ WF_vars(\E tm \in timers : tm.fire = f /\ RetryTimerFire(tm))

(***************************************************************************)
(* The registry on its own: the availability callbacks and the operator's  *)
(* commands, each recording in `call` what it was and how it ended.        *)
(***************************************************************************)
\* f"{n:02d}"
Fmt2(n) ==
    LET digit(k) == CHOOSE c \in DOMAIN DigitVal : DigitVal[c] = k
    IN  <<digit((n \div 10) % 10), digit(n % 10)>>

FoodName(i) == CASE i = 1 -> "food_dose_1" [] i = 2 -> "food_dose_2"

\* the numbers of daily feedings the operator asks for
Intervals == {1, 2}

\* the definition apply_schedule stores for feeding i (from 0) of `intervals`
\* feedings of total_ms in all: start_hour = int(i * 24.0 / intervals),
\* start_minute = int((i * 24.0 / intervals - start_hour) * 60)
FoodDef(dev, i, intervals, total_ms) ==
    Details(dev,
            Fmt2((i * 24) \div intervals) \o <<":">> \o Fmt2(((i * 24 * 60) \div intervals) % 60),
            0, "daily", None,
            [food_dose |-> [duration_ms |-> total_ms \div intervals]])

\* schedules.json as the registry specification finds it: the files of the
\* scheduler, a rejected definition before a valid one, and two food schedules
\* that an earlier apply_schedule stored for podB
RegistryFiles ==
    Files \cup
    { <<Entry("s1", FileBadTime), Entry("s2", FileA)>>,
      <<Entry("food_dose_1", FoodDef("podB", 0, 2, 600)),
        Entry("food_dose_2", FoodDef("podB", 1, 2, 600))>> }

Op(op, name, dev, n, status, removed, missing) ==
    [op |-> op, name |-> name, dev |-> dev, n |-> n, status |-> status,
     removed |-> removed, missing |-> missing]

BoundTo(dev) == {n \in Registered : schedules[n].device_name = dev}

\* device_added leaves its loop with the AttributeError of schedule_job
DeviceAddedRaises(dev) ==
    \E n \in BoundTo(dev) : ScheduleJobResult(schedules[n]) = "AttributeError"

add_service(dev) ==
    /\ dev \notin devices
    /\ devices' = devices \cup {dev}
    /\ jobs' = device_added(dev, 1, jobs)
    /\ call' = Op("add_service", "", dev, 0,
                  IF DeviceAddedRaises(dev) THEN "AttributeError" ELSE "ok", {}, {})
    /\ UNCHANGED <<schedules, order, threads, timers, nfires, hist, mat, file, log, clock, pcs>>

\* remove_service: `removed` are the names whose job was removed, `missing` those
\* whose remove_job failed ("Error removing job")
remove_service(dev) ==
    /\ dev \in devices
    /\ devices' = devices \ {dev}
    /\ jobs' = device_removed(dev, jobs)
    /\ call' = Op("remove_service", "", dev, 0, "ok",
                  {n \in BoundTo(dev) : HasJob(jobs, n)},
                  {n \in BoundTo(dev) : ~HasJob(jobs, n)})
    /\ UNCHANGED <<schedules, order, threads, timers, nfires, hist, mat, file, log, clock, pcs>>

do_rescan ==
    /\ devices # {}
    /\ devices' = {}
    /\ call' = Op("rescan", "", "", 0, "ok", {}, {})
    /\ UNCHANGED <<schedules, order, jobs, threads, timers, nfires, hist, mat, file, log, clock, pcs>>

\* delete_schedule <name>: "does not exist" for an unknown name; else remove_job
\* (its failure is printed), del, save
do_delete_schedule(name) ==
    IF schedules[name] = NoEntry
    THEN /\ call' = Op("delete_schedule", name, "", 0, "not_found", {}, {})
         /\ UNCHANGED <<devices, schedules, order, jobs, threads, timers, nfires, hist, mat, file, log, clock, pcs>>
    ELSE /\ jobs' = remove_job(jobs, name)
         /\ schedules' = [schedules EXCEPT ![name] = NoEntry]
         /\ order' = SelectSeq(order, LAMBDA n : n # name)
         /\ file' = save_schedules(schedules', order')
         /\ call' = Op("delete_schedule", name, "", 0, "deleted",
                       IF HasJob(jobs, name) THEN {name} ELSE {},
                       IF HasJob(jobs, name) THEN {} ELSE {name})
         /\ UNCHANGED <<devices, threads, timers, nfires, hist, mat, log, clock, pcs>>

\* delete_selected of the routine tab: remove_job, del and save inside one try; the
\* JobLookupError of a schedule without a job ends in "Failed to delete"
delete_selected(name) ==
    /\ schedules[name] # NoEntry
    /\ IF HasJob(jobs, name)
       THEN /\ jobs' = remove_job(jobs, name)
            /\ schedules' = [schedules EXCEPT ![name] = NoEntry]
            /\ order' = SelectSeq(order, LAMBDA n : n # name)
            /\ file' = save_schedules(schedules', order')
            /\ call' = Op("delete_selected", name, "", 0, "deleted", {name}, {})
       ELSE /\ call' = Op("delete_selected", name, "", 0, "error", {}, {name})
            /\ UNCHANGED <<schedules, order, jobs, file>>
    /\ UNCHANGED <<devices, threads, timers, nfires, hist, mat, log, clock, pcs>>

\* the creation loop of apply_schedule from feeding i on
RECURSIVE CreateFood(_, _, _, _, _)
CreateFood(i, intervals, dev, total_ms, st) ==
    IF i >= intervals THEN st
    ELSE LET name == FoodName(i + 1)
             d == FoodDef(dev, i, intervals, total_ms)
         IN  CreateFood(i + 1, intervals, dev, total_ms,
                        [schedules |-> [st.schedules EXCEPT ![name] = d],
                         order |-> IF st.schedules[name] = NoEntry
                                   THEN Append(st.order, name) ELSE st.order,
                         jobs |-> schedule_job(st.jobs, name, d)])

\* apply_schedule (food tab, do_manage_schedules) with `dev` selected: every
\* food_dose_* schedule whose remove_job succeeds is deleted (a failing remove_job
\* skips the del), then food_dose_1 .. food_dose_<intervals> are stored and
\* scheduled, then save
apply_schedule(dev, intervals, total_ms) ==
    /\ dev \in devices
    /\ LET food == {n \in FoodNames : schedules[n] # NoEntry}
           gone == {n \in food : HasJob(jobs, n)}
           st == CreateFood(0, intervals, dev, total_ms,
                            [schedules |-> [n \in Names |->
                                              IF n \in gone THEN NoEntry ELSE schedules[n]],
                             order |-> SelectSeq(order, LAMBDA n : n \notin gone),
                             jobs |-> {j \in jobs : j.id \notin gone}])
       IN  /\ schedules' = st.schedules
           /\ order' = st.order
           /\ jobs' = st.jobs
           /\ file' = save_schedules(schedules', order')
           /\ call' = Op("apply_schedule", "", dev, intervals, "ok", gone, food \ gone)
    /\ UNCHANGED <<devices, threads, timers, nfires, hist, mat, log, clock, pcs>>

\* create_schedule of the routine tab with `dev` selected
create_schedule(name, dev, details) ==
    /\ dev \in devices
    /\ Store(name, details)
    /\ jobs' = schedule_job(jobs, name, details)
    /\ file' = save_schedules(schedules', order')
    /\ call' = Op("create_schedule", name, dev, 0, ScheduleJobResult(details), {}, {})
    /\ UNCHANGED <<devices, threads, timers, nfires, hist, mat, log, clock, pcs>>

RegistryInit ==
    /\ devices = {}
    /\ \E f \in RegistryFiles :
         /\ order = [i \in 1..Len(f) |-> f[i].name]
         /\ schedules = [n \in Names |->
                           IF \E i \in 1..Len(f) : f[i].name = n
                           THEN (CHOOSE e \in {f[i] : i \in 1..Len(f)} : e.name = n).details
                           ELSE NoEntry]
    /\ jobs = {}
    /\ threads = {}
    /\ timers = {}
    /\ nfires = 0
    /\ hist = <<>>
    /\ call = NoEntry
    /\ mat = MatIdle
    /\ file = Document(schedules, order)
    /\ log = <<>>
    /\ clock = 0
    /\ pcs = AllIdle

RegistryNext ==
    \/ \E dev \in Devices : add_service(dev)
    \/ \E dev \in Devices : remove_service(dev)
    \/ do_rescan
    \/ \E n \in Names : do_delete_schedule(n)
    \/ \E n \in Names : delete_selected(n)
    \/ \E dev \in Devices, k \in Intervals : apply_schedule(dev, k, 1000)
    \/ \E n \in RoutineNames, dev \in RoutineDevices : \E d \in RoutineDefs(dev) :
         create_schedule(n, dev, d)

SpecRegistry == RegistryInit /\ [][RegistryNext]_vars

(***************************************************************************)
(* The execution engine with the outcome of every POST: one schedule of    *)
(* podA, the device coming and going, any POST raising.                    *)
(***************************************************************************)
ActMix == [airpump |-> [value |-> 80], led |-> [value |-> 50], food_dose |-> [duration_ms |-> 500]]

\* an instant schedule (no auto-off) and one with three actions and an auto-off
\* after ten minutes
FileInstant == Details("podA", T0900, 0, "daily", None, ActPumps)

FileMix == Details("podA", T1830, 10, "weekly", "friday", ActMix)

ExecDefs == {FileInstant, FileMix}

ExecInit ==
    /\ devices = {}
    /\ order = <<"s1">>
    /\ \E d \in ExecDefs : schedules = [n \in Names |-> IF n = "s1" THEN d ELSE NoEntry]
    /\ jobs = {}
    /\ threads = {}
    /\ timers = {}
    /\ nfires = 0
    /\ hist = <<>>
    /\ call = NoEntry
    /\ mat = MatIdle
    /\ file = Document(schedules, order)
    /\ log = <<>>
    /\ clock = 0
    /\ pcs = AllIdle

ExecNext ==
    \/ AddService("podA")
    \/ RemoveService("podA")
    \/ Rescan
    \/ \E j \in jobs : TriggerFire(j)
    \/ \E t \in threads : ExecCheck(t)
    \/ \E t \in threads : ExecDispatchRaising(t)
    \/ \E tm \in timers : RetryTimerFire(tm)
    \/ \E tm \in timers : OffTimerFireRaising(tm)

SpecExec == ExecInit /\ [][ExecNext]_vars

(***************************************************************************)
(* schedule_job on its own: calls with definitions of every shape.         *)
(***************************************************************************)
RegDefs ==
    { Details("podA", st, dur, freq, day, ActLed) :
        st \in {T0900, T9am, T2500, T95}, dur \in {10},
        freq \in {"daily", "weekly"}, day \in {None, "friday", "Friday", "funday"} }

\* schedule_job(name, details); the AttributeError leaves the job store as it was
Register(name, details) ==
    /\ call' = Call(name, details)
    /\ jobs' = schedule_job(jobs, name, details)
    /\ UNCHANGED <<devices, schedules, order, threads, timers, nfires, hist, mat, file, log, clock, pcs>>

RegInit ==
    /\ devices = {}
    /\ schedules = [n \in Names |-> NoEntry]
    /\ order = <<>>
    /\ jobs = {}
    /\ threads = {}
    /\ timers = {}
    /\ nfires = 0
    /\ hist = <<>>
    /\ call = NoEntry
    /\ mat = MatIdle
    /\ file = Document(schedules, order)
    /\ log = <<>>
    /\ clock = 0
    /\ pcs = AllIdle

RegNext == \E n \in {"s1", "s2"} : \E d \in RegDefs : Register(n, d)

SpecRegister == RegInit /\ [][RegNext]_vars

(***************************************************************************)
(* The recurrence materializer.  current_day is a Python float as soon as  *)
(* days_between = 7 / frequency_per_week is added to it: an IEEE 754       *)
(* double.  A double x >= 0 is the record [i, f1, f0] with                 *)
(* x = i + (f1 * 2^26 + f0) / 2^52, exact for 0 and for every double >= 1. *)
(***************************************************************************)
Limb == 2^26

Dbl(i, f1, f0) == [i |-> i, f1 |-> f1, f0 |-> f0]

FromInt(n) == Dbl(n, 0, 0)

RECURSIVE Log2Floor(_)
Log2Floor(n) == IF n < 2 THEN 0 ELSE 1 + Log2Floor(n \div 2)

\* round-to-nearest-even of i + (f1 * 2^26 + f0 + rem / den) / 2^52 to the 53
\* significant bits of a double: the lowest Log2Floor(i) bits of f0 are dropped
RoundDbl(i, f1, f0, rem, den) ==
    LET m == 2 ^ Log2Floor(i)
        low == f0 % m
        base == f0 - low
        above == IF m = 1 THEN 2 * rem > den
                 ELSE low > m \div 2 \/ (low = m \div 2 /\ rem > 0)
        tie == IF m = 1 THEN 2 * rem = den ELSE low = m \div 2 /\ rem = 0
        up == above \/ (tie /\ (base \div m) % 2 = 1)
        g0 == IF up THEN base + m ELSE base
        g1 == IF g0 >= Limb THEN f1 + 1 ELSE f1
    IN  Dbl(IF g1 >= Limb THEN i + 1 ELSE i, g1 % Limb, g0 % Limb)

\* n / f in double arithmetic, n and f positive integers
FloatDiv(n, f) ==
    LET r0 == n % f
        r1 == (r0 * Limb) % f
    IN  RoundDbl(n \div f, (r0 * Limb) \div f, (r1 * Limb) \div f, (r1 * Limb) % f, f)

\* x + y in double arithmetic
FloatAdd(x, y) ==
    LET s0 == x.f0 + y.f0
        s1 == x.f1 + y.f1 + s0 \div Limb
    IN  RoundDbl(x.i + y.i + s1 \div Limb, s1 % Limb, s0 % Limb, 0, 1)

\* x <= n for an integer n
FloatLessEq(x, n) == x.i < n \/ (x.i = n /\ x.f1 = 0 /\ x.f0 = 0)

\* x < n for an integer n
FloatLess(x, n) == x.i < n

\* timedelta(days=x) keeps whole microseconds: a fraction of a day within half a
\* microsecond (26062 units of 2^-52 day) of the next microsecond is rounded up
HalfMicrosecond == 26062

\* the calendar day, counted from the day of start_date, of
\* start_date + timedelta(days=x), for a start_date at tod quarters of a day
EventDay(x, tod) ==
    LET t1 == (4 - tod) * 2^24 - 1
        t0 == Limb - HalfMicrosecond
    IN  IF x.f1 > t1 \/ (x.f1 = t1 /\ x.f0 >= t0) THEN x.i + 1 ELSE x.i

MaxDay == 12

MaxFreq == 6

MaxInterval == 3

\* times of day of start_date, in quarters of a day
StartTimes == {0, 2}

FeedingStage(d0, d1, f) == [day_start |-> d0, day_end |-> d1, frequency_per_week |-> f]

WaterStage(d0, d1, n) == [day_start |-> d0, day_end |-> d1, interval_days |-> n]

\* profiles of two stages with the windows [a, b) and [b, c)
FeedingSchedules ==
    { <<FeedingStage(a, b, f), FeedingStage(b, c, g)>> :
        a \in 0..MaxDay, b \in 0..MaxDay, c \in 0..MaxDay, f \in 0..MaxFreq, g \in {0, 1, 2} }

WaterSchedules ==
    { <<WaterStage(a, b, n), WaterStage(b, c, k)>> :
        a \in 0..MaxDay, b \in 0..MaxDay, c \in 0..MaxDay,
        n \in 1..MaxInterval, k \in 1..MaxInterval }

Ordered(sch) == sch[1].day_start <= sch[1].day_end /\ sch[2].day_start <= sch[2].day_end

\* dict.get(key, default)
get(d, key, default) == IF key \in DOMAIN d THEN d[key] ELSE default

\* profile_data.get('nutrition', {}).get('feeding_schedule', [])
FeedingSchedule(p) == get(get(p, "nutrition", <<>>), "feeding_schedule", <<>>)

\* profile_data.get('water_change_schedule', {}).get('schedule', [])
WaterSchedule(p) == get(get(p, "water_change_schedule", <<>>), "schedule", <<>>)

FeedingMissing(p) == "nutrition" \notin DOMAIN p \/ "feeding_schedule" \notin DOMAIN p.nutrition

WaterMissing(p) ==
    "water_change_schedule" \notin DOMAIN p \/ "schedule" \notin DOMAIN p.water_change_schedule

\* the stages when a missing section stands for one default week
Stages_Fallback ==
    IF mat.kind = "dosing"
    THEN (IF FeedingMissing(mat.profile) THEN <<FeedingStage(0, 7, 1)>>
          ELSE FeedingSchedule(mat.profile))
    ELSE (IF WaterMissing(mat.profile) THEN <<WaterStage(0, 7, 7)>>
          ELSE WaterSchedule(mat.profile))

Stages == IF mat.kind = "dosing" THEN FeedingSchedule(mat.profile)
          ELSE WaterSchedule(mat.profile)

\* the CalendarEvent each walk builds, with the scheduled_time as (day, hour, minute)
DosingEvent(idx, cur) ==
    [event_type |-> "dosing", stage |-> idx,
     scheduled_time |-> [day |-> EventDay(cur, mat.tod), hour |-> 9, minute |-> 0],
     duration_minutes |-> 5, command_type |-> "dose_food", recurrence |-> "none",
     enabled |-> TRUE]

\* a water change at the time of day of a dosing
WaterEvent_AtNine(idx, cur) ==
    [event_type |-> "water_change", stage |-> idx,
     scheduled_time |-> [day |-> EventDay(cur, mat.tod), hour |-> 9, minute |-> 0],
     duration_minutes |-> 15, command_type |-> "drain_fill", recurrence |-> "none",
     enabled |-> TRUE]

WaterEvent(idx, cur) ==
    [event_type |-> "water_change", stage |-> idx,
     scheduled_time |-> [day |-> EventDay(cur, mat.tod), hour |-> 10, minute |-> 0],
     duration_minutes |-> 15, command_type |-> "drain_fill", recurrence |-> "none",
     enabled |-> TRUE]

\* the loop over the stages with `break` in the place of `continue`: the walk ends
\* at a feeding stage with frequency_per_week 0
NextStage_StopAtZero ==
    /\ mat.pc = "for"
    /\ IF mat.idx = Len(Stages)
       THEN mat' = [mat EXCEPT !.pc = "done"]
       ELSE LET st == Stages[mat.idx + 1]
            IN  IF mat.kind = "dosing" /\ st.frequency_per_week = 0
                THEN mat' = [mat EXCEPT !.idx = @ + 1, !.pc = "done"]
                ELSE mat' = [mat EXCEPT !.idx = @ + 1, !.pc = "while",
                                        !.current_day = FromInt(st.day_start),
                                        !.step = IF mat.kind = "dosing"
                                                 THEN FloatDiv(7, st.frequency_per_week)
                                                 ELSE FromInt(st.interval_days)]
    /\ UNCHANGED schedVars

\* `for stage in ...`: the next stage (a feeding stage with frequency_per_week 0 is
\* skipped), or the return after the last one
NextStage ==
    /\ mat.pc = "for"
    /\ IF mat.idx = Len(Stages)
       THEN mat' = [mat EXCEPT !.pc = "done"]
       ELSE LET st == Stages[mat.idx + 1]
            IN  IF mat.kind = "dosing" /\ st.frequency_per_week = 0
                THEN mat' = [mat EXCEPT !.idx = @ + 1]
                ELSE mat' = [mat EXCEPT !.idx = @ + 1, !.pc = "while",
                                        !.current_day = FromInt(st.day_start),
                                        !.step = IF mat.kind = "dosing"
                                                 THEN FloatDiv(7, st.frequency_per_week)
                                                 ELSE FromInt(st.interval_days)]
    /\ UNCHANGED schedVars

\* one turn of `while current_day < day_end`: add_event, then advance
LoopBody ==
    /\ mat.pc = "while"
    /\ FloatLess(mat.current_day, Stages[mat.idx].day_end)
    /\ mat' = [mat EXCEPT
                 !.store = Append(@, IF mat.kind = "dosing"
                                     THEN DosingEvent(mat.idx, mat.current_day)
                                     ELSE WaterEvent(mat.idx, mat.current_day)),
                 !.event_ids = Append(@, Len(mat.store) + 1),
                 !.current_day = FloatAdd(@, mat.step)]
    /\ UNCHANGED schedVars

LoopExit ==
    /\ mat.pc = "while"
    /\ ~FloatLess(mat.current_day, Stages[mat.idx].day_end)
    /\ mat' = [mat EXCEPT !.pc = "for"]
    /\ UNCHANGED schedVars

Walk(kind, profile, tod) ==
    [kind |-> kind, profile |-> profile, tod |-> tod, pc |-> "for", idx |-> 0,
     current_day |-> FromInt(0), step |-> FromInt(0), store |-> <<>>, event_ids |-> <<>>]

\* a call of create_dosing_events_from_profile or of
\* create_water_change_events_from_profile on an empty store
MatInit ==
    /\ devices = {}
    /\ schedules = [n \in Names |-> NoEntry]
    /\ order = <<>>
    /\ jobs = {}
    /\ threads = {}
    /\ timers = {}
    /\ nfires = 0
    /\ hist = <<>>
    /\ call = NoEntry
    /\ file = Document(schedules, order)
    /\ log = <<>>
    /\ clock = 0
    /\ pcs = AllIdle
    /\ \E tod \in StartTimes :
         \/ \E sch \in FeedingSchedules :
              /\ Ordered(sch)
              /\ mat = Walk("dosing", [nutrition |-> [feeding_schedule |-> sch]], tod)
         \/ \E sch \in WaterSchedules :
              /\ Ordered(sch)
              /\ mat = Walk("water", [water_change_schedule |-> [schedule |-> sch]], tod)

MatNext == NextStage \/ LoopBody \/ LoopExit

SpecMat == MatInit /\ [][MatNext]_vars

(***************************************************************************)
(* Claims about the scheduler and the execution engine.                    *)
(***************************************************************************)
ThreadsOf(f) == {t \in threads : t.fire = f}

RetriesOf(f) == {tm \in timers : tm.kind = "retry" /\ tm.fire = f}

OffsOf(f) == {tm \in timers : tm.kind = "off" /\ tm.fire = f}

\* C1: once delete_schedule(name) has completed (the name is no longer in the
\* registry), no step issues a dispatch or an auto-off command for that name,
\* whatever retry or auto-off timer was pending at the unregistration.
C1_NoCommandAfterUnregister ==
    [][\A f \in Fires :
         schedules[hist[f].name] = NoEntry =>
           /\ hist'[f].dispatched = hist[f].dispatched
           /\ hist'[f].offSent = hist[f].offSent]_vars

C3_ExactlyOneDispatch ==
    \A f \in Fires :
      /\ hist[f].dispatched <= 1
      /\ Cardinality(ThreadsOf(f)) + Cardinality(RetriesOf(f))
           + hist[f].dispatched + hist[f].crashed = 1

\* a fire found its device absent, the device came back, and the retry dispatched
C3_Witness ==
    \E f \in Fires : hist[f].absent /\ hist[f].dispatched = 1 /\ hist[f].device \in devices
                     /\ ThreadsOf(f) = {} /\ RetriesOf(f) = {}

\* C4: a fire that found its device absent is retried until it dispatches: if from
\* some time on the device stays available and the schedule stays registered, the
\* fire's actions are eventually dispatched.
C4_RetryLiveness ==
    \A f \in 1..MaxFires :
      <>[](f \in Fires /\ hist[f].absent /\ hist[f].device \in devices
           /\ schedules[hist[f].name] # NoEntry)
      => <>(f \in Fires /\ hist[f].dispatched >= 1)

\* C5: no retry timer and no auto-off timer that was pending when its device was
\* removed causes a command to that device afterwards.
C5_NoCommandFromStaleTimer == \A f \in Fires : hist[f].stale = 0

\* C6: at most one thread is inside execute_schedule for a schedule name.
C6_NoConcurrentExecution ==
    \A n \in Names : Cardinality({t \in threads : t.args.name = n}) <= 1

\* a definition is malformed when its start_time is not a time of the format
\* %H:%M or when it is weekly and its day_of_week is not the name of a weekday
Malformed(d) ==
    \/ strptime(d.start_time) = ValueError
    \/ /\ d.frequency = "weekly"
       /\ \/ d.day_of_week = None
          \/ lower(d.day_of_week) \notin {"monday", "tuesday", "wednesday", "thursday",
                                          "friday", "saturday", "sunday"}

C12_DeleteRemovesBoth ==
    [][/\ (call'.op \in {"delete_schedule", "delete_selected"}
            /\ schedules[call'.name] # NoEntry) =>
              schedules'[call'.name] = NoEntry /\ ~HasJob(jobs', call'.name)
       /\ call'.op = "apply_schedule" =>
            \A n \in FoodNames \ {FoodName(i) : i \in 1..call'.n} :
              schedules[n] # NoEntry =>
                schedules'[n] = NoEntry /\ ~HasJob(jobs', n)]_vars

\* C13: delete_schedule of an unknown name is reported as not found and changes
\* nothing; a removal that fails inside device_removed or inside the bulk
\* replacement of the food schedules changes nothing either and the rest of the
\* bulk operation is carried out (the other jobs of the device are removed; the
\* food schedules with a job are deleted and the new ones stored and scheduled).
C13_UnknownNameIsNoOp ==
    [][/\ (call'.op = "delete_schedule" /\ schedules[call'.name] = NoEntry) =>
            /\ call'.status = "not_found"
            /\ schedules' = schedules /\ order' = order /\ jobs' = jobs /\ file' = file
       /\ call'.op = "remove_service" =>
            /\ \A n \in Registered : schedules[n].device_name = call'.dev => ~HasJob(jobs', n)
            /\ jobs' \subseteq jobs
       /\ call'.op = "apply_schedule" =>
            /\ \A n \in call'.missing : schedules[n] # NoEntry
                                         /\ (schedules'[n] = schedules[n] \/ n \in {FoodName(i) : i \in 1..call'.n})
            /\ \A n \in call'.removed \ {FoodName(i) : i \in 1..call'.n} :
                 schedules'[n] = NoEntry /\ ~HasJob(jobs', n)
            /\ \A i \in 1..call'.n :
                 /\ schedules'[FoodName(i)] = FoodDef(call'.dev, i - 1, call'.n, 1000)
                 /\ JobOf(FoodName(i), schedules'[FoodName(i)]) \in jobs']_vars

\* device_removed met a schedule without a job before one with a job, and removed
\* the job of the second
C13_Witness ==
    /\ call # NoEntry /\ call.op = "remove_service"
    /\ \E i, k \in 1..Len(order) : i < k /\ order[i] \in call.missing /\ order[k] \in call.removed
    /\ jobs = {}

\* C14: device_added(d) leaves a live trigger for every well-formed definition of
\* the registry bound to d, built from that definition, and does not touch the
\* jobs of the schedules bound to other devices.
C14_DeviceAddedRegistersAll ==
    [][call'.op = "add_service" =>
         /\ \A n \in Registered :
              (schedules[n].device_name = call'.dev /\ ~Malformed(schedules[n])) =>
                JobOf(n, schedules[n]) \in jobs'
         /\ \A j \in jobs \cup jobs' :
              j.args.device_name # call'.dev => (j \in jobs /\ j \in jobs')]_vars

\* C15: device_removed(d) removes exactly the jobs of the schedules bound to d
\* and changes neither the registry nor schedules.json: the jobs of the other
\* devices stay.
C15_DeviceRemovedKeepsDefinitions ==
    [][call'.op = "remove_service" =>
         /\ schedules' = schedules /\ order' = order /\ file' = file
         /\ jobs' = {j \in jobs : schedules[j.id].device_name # call'.dev}]_vars

\* podA has been removed: the job of its schedule s1 is gone, s1 is still in the
\* registry and in the document, the job of podB's schedule s2 is live
C15_Witness ==
    /\ call # NoEntry /\ call.op = "remove_service" /\ call.dev = "podA" /\ call.removed = {"s1"}
    /\ schedules["s1"] = FileA /\ file.schedules["s1"] = FileA
    /\ jobs = {JobOf("s2", FileB)}

(***************************************************************************)
(* Claims about the dispatch and the auto-off (one schedule, s1, whose     *)
(* definition stays in the registry).                                      *)
(***************************************************************************)
DurationOf(f) == schedules[hist[f].name].duration_minutes

ActionsOf(f) == schedules[hist[f].name].actions

\* C16: a fire gets an auto-off if and only if its duration_minutes is above 0:
\* with a duration m > 0 every dispatch is followed by exactly one auto-off (one
\* timer of m * 60 seconds, pending or fired, never one before the dispatch); with
\* a duration of 0 there is no auto-off timer and no auto-off command at all.
C16_AutoOffIffDuration ==
    \A f \in Fires :
      IF DurationOf(f) > 0
      THEN /\ Cardinality(OffsOf(f)) + hist[f].offs = hist[f].dispatched
           /\ \A tm \in OffsOf(f) : tm.delay = DurationOf(f) * 60
      ELSE OffsOf(f) = {} /\ hist[f].offs = 0 /\ hist[f].offSent = {}

\* a fire of the 10-minute schedule was dispatched and its auto-off has run
C16_Witness ==
    \E f \in Fires : DurationOf(f) = 10 /\ hist[f].dispatched = 1 /\ hist[f].offs = 1
                     /\ hist[f].offSent # {}

\* C17: the auto-off that runs with its device present sends value 0 to exactly
\* the actuators of the schedule's actions that are one of airpump, sourcepump,
\* planterpump, drainpump, led; no auto-off ever commands another actuator.
C17_OffTargets ==
    [][\A f \in Fires :
         LET named == {a \in DOMAIN ActionsOf(f) :
                         a \in {"airpump", "sourcepump", "planterpump", "drainpump", "led"}}
         IN  /\ hist'[f].offSent \subseteq named
             /\ (hist'[f].offs > hist[f].offs /\ hist[f].device \in devices)
                  => hist'[f].offSent = named]_vars

\* the auto-off of the schedule with airpump, led and food_dose has set airpump and
\* led to 0, and nothing else
C17_Witness ==
    \E f \in Fires : ActionsOf(f) = ActMix /\ hist[f].sent = {"airpump", "led", "food_dose"}
                     /\ hist[f].offs = 1 /\ hist[f].offSent = {"airpump", "led"}

\* C18: the auto-off is attempted once and never retried: the step in which the
\* auto-off timer of a fire fires starts no timer and no thread, and leaves no
\* auto-off timer of that fire; with the device absent it sends nothing.
C18_AutoOffNotRetried ==
    [][\A f \in Fires :
         hist'[f].offs > hist[f].offs =>
           /\ timers' \subseteq timers
           /\ threads' = threads
           /\ {tm \in timers' : tm.kind = "off" /\ tm.fire = f} = {}
           /\ hist'[f].offs = 1
           /\ hist[f].device \notin devices => hist'[f].offSent = hist[f].offSent]_vars

\* an auto-off ran while its device was absent and sent nothing; the device is
\* back and nothing of that fire is left to run.  Or its POSTs raised.
C18_Witness ==
    /\ \E f \in Fires : /\ hist[f].offs = 1 /\ hist[f].offSent = {} /\ hist[f].dispatched = 1
                         /\ hist[f].device \in devices
                         /\ \A x \in threads \cup timers : x.fire # f
    /\ \E f \in Fires : hist[f].offs = 1 /\ hist[f].offFailed # {}

\* C19: a dispatch attempts a command for every actuator of the actions, whichever
\* of the POSTs raise, and a dispatch with a duration above 0 has its auto-off
\* timer whichever of them raise.
C19_IndependentDispatch ==
    \A f \in Fires :
      hist[f].dispatched >= 1 =>
        /\ hist[f].sent = DOMAIN ActionsOf(f)
        /\ hist[f].failed \subseteq hist[f].sent
        /\ DurationOf(f) > 0 => OffsOf(f) # {} \/ hist[f].offs >= 1

\* the first POST (airpump) of a dispatch raised; led and food_dose were attempted
\* all the same and the auto-off timer is pending
C19_Witness ==
    \E f \in Fires : /\ "airpump" \in hist[f].failed /\ "led" \notin hist[f].failed
                     /\ hist[f].sent = {"airpump", "led", "food_dose"}
                     /\ OffsOf(f) # {}

\* C20: the dispatch of a fire in which POSTs raised leaves the registry, the JSON
\* document and the job store as they were: the schedule's trigger stays live.
C20_FailureKeepsSchedule ==
    [][\A f \in Fires :
         (hist'[f].dispatched > hist[f].dispatched /\ hist'[f].failed # {}) =>
           /\ schedules' = schedules /\ order' = order /\ file' = file
           /\ jobs' = jobs
           /\ \E j \in jobs' : j.id = hist[f].name]_vars

\* every POST of the first fire raised, and the schedule has fired again
C20_Witness ==
    /\ nfires = 2
    /\ hist[1].dispatched = 1 /\ hist[1].failed = DOMAIN ActionsOf(1)
    /\ hist[2].name = hist[1].name /\ hist[2].dispatched = 1

(***************************************************************************)
(* Claims about schedule_job.                                              *)
(***************************************************************************)
\* C10: a call of schedule_job with a weekly definition without day_of_week ends
\* as a validation failure (the "Invalid day of week" return) and leaves the job
\* store as it was; the same definition with day_of_week "friday" is scheduled
\* with a weekly trigger on fri.
C10_WeeklyNeedsDay ==
    [][(call' # NoEntry /\ call'.details.frequency = "weekly"
          /\ strptime(call'.details.start_time) # ValueError) =>
         /\ call'.details.day_of_week = None =>
              call'.result = "invalid_day" /\ jobs' = jobs
         /\ call'.details.day_of_week = "friday" =>
              /\ call'.result = "scheduled"
              /\ {j \in jobs' : j.id = call'.name} = {JobOf(call'.name, call'.details)}
              /\ JobOf(call'.name, call'.details).trigger.day_of_week = "fri"]_vars

(***************************************************************************)
(* Claims about the recurrence materializer.                               *)
(***************************************************************************)
\* the events a finished walk stored for stage s, in the order of their creation
EventsOf(s) == SelectSeq(mat.store, LAMBDA e : e.stage = s)

Finished(kind) == mat.kind = kind /\ mat.pc = "done"

\* C7: for a feeding stage with frequency_per_week f > 0 and window [d0, d1) the
\* walk stores exactly ceil((d1 - d0) / (7 / f)) dosing events, the k-th on the
\* calendar day of start_date + (d0 + k * 7 / f) days, each offset d0 + k * 7 / f
\* below d1.
C7_DosingEvents ==
    Finished("dosing") =>
      \A s \in 1..Len(Stages) :
        LET f == Stages[s].frequency_per_week
            d0 == Stages[s].day_start
            d1 == Stages[s].day_end
            ev == EventsOf(s)
        IN  f > 0 =>
              /\ Len(ev) = ((d1 - d0) * f + 6) \div 7
              /\ \A k \in 0..(Len(ev) - 1) :
                   /\ ev[k + 1].scheduled_time.day
                        = (4 * f * d0 + 28 * k + mat.tod * f) \div (4 * f)
                   /\ d0 * f + 7 * k < d1 * f

\* C8: for a water-change stage with interval_days n and window [d0, d1) the walk
\* stores events exactly on the days d0, d0 + n, d0 + 2n, ... below d1: as many
\* as there are such days, the k-th on day d0 + k * n.
C8_WaterChangeEvents ==
    Finished("water") =>
      \A s \in 1..Len(Stages) :
        LET n == Stages[s].interval_days
            d0 == Stages[s].day_start
            d1 == Stages[s].day_end
            ev == EventsOf(s)
        IN  n > 0 =>
              /\ Len(ev) = Cardinality({k \in 0..MaxDay : d0 + k * n < d1})
              /\ \A k \in 0..(Len(ev) - 1) :
                   /\ ev[k + 1].scheduled_time = [day |-> d0 + k * n, hour |-> 10, minute |-> 0]
                   /\ ev[k + 1].event_type = "water_change"

\* a finished water-change walk with several events in its first stage (one of
\* them on the last day before the boundary) and an event in its second stage
C8_Witness ==
    /\ Finished("water")
    /\ Stages[1].interval_days = 2
    /\ Len(EventsOf(1)) >= 3
    /\ \E i \in 1..Len(mat.store) :
         mat.store[i].stage = 1 /\ mat.store[i].scheduled_time.day = Stages[1].day_end - 1
    /\ Len(EventsOf(2)) >= 1

\* C9: the stages [a, b) and [b, c) of one profile never both put an event of
\* the walk's kind on the same calendar day (the same scheduled_time), whatever
\* the start_date and the step.
C9_NoDoubleBooking ==
    (mat.kind \in {"dosing", "water"} /\ mat.pc = "done") =>
      \A i, j \in 1..Len(mat.store) :
        mat.store[i].stage # mat.store[j].stage =>
          mat.store[i].scheduled_time # mat.store[j].scheduled_time

(***************************************************************************)
(* The execution log.  CalendarScheduler.log_execution inserts one row     *)
(* into event_execution_log and commits; it is the only writer of the      *)
(* table.  Nothing in hydroponics_console.py calls it: execute_schedule    *)
(* prints what it did, so no action of the scheduler changes `log`.        *)
(***************************************************************************)
log_execution(rows, event_id, success) ==
    Append(rows, [log_id |-> Len(rows) + 1, event_id |-> event_id, success |-> success])

\* the rows of the log recorded for fire f
EntriesOf(f) == {i \in 1..Len(log) : log[i].event_id = f}

\* C21: every fire that has reached dispatch has exactly one row in the execution
\* log, whose success says that no dispatched command failed; a fire that has
\* not dispatched (its device was absent so far) has no row.
C21_OneLogEntryPerDispatch ==
    \A f \in Fires :
        IF hist[f].dispatched >= 1
        THEN /\ Cardinality(EntriesOf(f)) = 1
             /\ \A i \in EntriesOf(f) : log[i].success = (hist[f].failed = {})
        ELSE EntriesOf(f) = {}

(***************************************************************************)
(* The scheduler under a wall clock.  The clock counts time slots: every   *)
(* day has the slots of SlotTimes, and the week starts on a thursday.  The *)
(* scheduler thread of APScheduler wakes at a slot and submits every job   *)
(* whose cron trigger matches it; a job added later in the slot waits for  *)
(* its next matching slot.  Slots are hours apart, while an execution ends *)
(* within its POST timeouts and an auto-off timer runs ten minutes, so     *)
(* both are over when the next slot begins.                                *)
(***************************************************************************)
MaxClock == 18

SlotTimes == <<[hour |-> 9, minute |-> 0], [hour |-> 18, minute |-> 30]>>

\* the days of the week as the cron trigger names them, and in full
CronDays == <<"thu", "fri", "sat", "sun", "mon", "tue", "wed">>

DayNames == <<"thursday", "friday", "saturday", "sunday", "monday", "tuesday", "wednesday">>

DayIndex(c) == (((c - 1) \div Len(SlotTimes)) % Len(CronDays)) + 1

TimeOf(c) == SlotTimes[((c - 1) % Len(SlotTimes)) + 1]

\* the cron trigger built by add_job(..., 'cron', day_of_week=, hour=, minute=)
\* matches slot c
Due(trigger, c) ==
    /\ c >= 1
    /\ trigger.hour = TimeOf(c).hour /\ trigger.minute = TimeOf(c).minute
    /\ trigger.day_of_week \in {None, CronDays[DayIndex(c)]}

\* the scheduler thread submits the jobs of `due` to its executor
RECURSIVE Submit(_, _, _)
Submit(due, at, st) ==
    IF due = {} THEN st
    ELSE LET j == CHOOSE j \in due : TRUE
             f == st.nfires + 1
         IN  Submit(due \ {j}, at,
                    [nfires |-> f,
                     threads |-> st.threads \cup {Thread(f, j.args, "cron", FALSE)},
                     hist |-> Append(st.hist,
                                [name |-> j.id, device |-> j.args.device_name, absent |-> FALSE,
                                 dispatched |-> 0, sent |-> {}, failed |-> {}, crashed |-> 0,
                                 offs |-> 0, offSent |-> {}, offFailed |-> {}, stale |-> 0,
                                 at |-> at])])

\* the wall clock reaches the next slot
Tick ==
    /\ clock < MaxClock
    /\ threads = {}
    /\ \A tm \in timers : tm.kind # "off"
    /\ LET due == {j \in jobs : Due(j.trigger, clock + 1)}
           st == Submit(due, clock + 1, [nfires |-> nfires, threads |-> threads, hist |-> hist])
       IN  /\ nfires + Cardinality(due) <= MaxFires
           /\ clock' = clock + 1
           /\ nfires' = st.nfires
           /\ threads' = st.threads
           /\ hist' = st.hist
    /\ UNCHANGED <<devices, schedules, order, jobs, timers, call, mat, file, log, pcs>>

\* load_schedules: the loop over the loaded document
RECURSIVE load_schedules(_, _, _, _)
load_schedules(doc, devs, i, js) ==
    IF i > Len(doc.order) THEN js
    ELSE LET n == doc.order[i]
             d == doc.schedules[n]
         IN  IF d.device_name \in devs
             THEN load_schedules(doc, devs, i + 1, schedule_job(js, n, d))
             ELSE load_schedules(doc, devs, i + 1, js)

\* the process ends, its threads, timers and job store with it, and starts again:
\* HydroponicsConsole.__init__ loads schedules.json while `devices` is still empty
\* (service discovery starts after the console is built)
Restart ==
    /\ devices' = {}
    /\ schedules' = file.schedules
    /\ order' = file.order
    /\ jobs' = load_schedules(file, devices', 1, {})
    /\ threads' = {}
    /\ timers' = {}
    /\ call' = Op("init", "", "", 0, "ok", {}, {})
    /\ UNCHANGED <<nfires, hist, mat, file, log, clock, pcs>>

\* a weekly schedule whose day is written with a capital
FileFriday == Details("podA", T0900, 0, "weekly", "Friday", ActLed)

ClockDefs == {FileInstant, FileMix, FileFriday}

ClockInit ==
    /\ devices = {}
    /\ order = <<"s1">>
    /\ \E d \in ClockDefs : schedules = [n \in Names |-> IF n = "s1" THEN d ELSE NoEntry]
    /\ jobs = {}
    /\ threads = {}
    /\ timers = {}
    /\ nfires = 0
    /\ hist = <<>>
    /\ call = Op("init", "", "", 0, "ok", {}, {})
    /\ mat = MatIdle
    /\ file = Document(schedules, order)
    /\ log = <<>>
    /\ clock = 0
    /\ pcs = AllIdle

ClockNext ==
    \/ add_service("podA")
    \/ remove_service("podA")
    \/ Restart
    \/ Tick
    \/ \E t \in threads : ExecCheck(t)
    \/ \E t \in threads : ExecDispatch(t)
    \/ \E tm \in timers : RetryTimerFire(tm)
    \/ \E tm \in timers : OffTimerFire(tm)

SpecClock == ClockInit /\ [][ClockNext]_vars

\* the definition d asks for a fire in slot c: its start_time is the slot's time
\* and it is daily, or weekly on the slot's day
DueDef(d, c) ==
    /\ d # NoEntry
    /\ ScheduleJobResult(d) = "scheduled"
    /\ strptime(d.start_time) = TimeOf(c)
    /\ \/ d.frequency = "daily"
       \/ d.frequency = "weekly" /\ lower(d.day_of_week) = DayNames[DayIndex(c)]

\* the fires a step adds
NewFires == (DOMAIN hist') \ (DOMAIN hist)

C23_CronFiresAtStartTime ==
    [][/\ NewFires # {} =>
            /\ clock' = clock + 1
            /\ \A f \in NewFires :
                   hist'[f].at = clock' /\ DueDef(schedules[hist'[f].name], clock')
       /\ clock' = clock + 1 =>
            \A n \in Registered :
                (HasJob(jobs, n) /\ DueDef(schedules[n], clock'))
                    => Cardinality({f \in NewFires : hist'[f].name = n}) = 1]_vars

\* a weekly schedule has fired on the fridays of two weeks
C23_Witness ==
    /\ nfires = 2
    /\ schedules["s1"].frequency = "weekly"
    /\ hist[2].at = hist[1].at + Len(SlotTimes) * Len(CronDays)
    /\ CronDays[DayIndex(hist[2].at)] = "fri"

\* a daily schedule has fired on two days in a row
C23_WitnessDaily ==
    /\ nfires = 2
    /\ schedules["s1"].frequency = "daily"
    /\ hist[2].at = hist[1].at + Len(SlotTimes)

\* C25: when the dosing walk has returned, a feeding stage with frequency_per_week
\* 0 has no event whatever its window, and every other stage with a non-empty
\* window has its events, also when it comes after a stage with frequency 0.
C25_ZeroFrequencySkipped ==
    Finished("dosing") =>
        \A s \in 1..Len(Stages) :
            IF Stages[s].frequency_per_week = 0
            THEN EventsOf(s) = <<>>
            ELSE Stages[s].day_start < Stages[s].day_end => EventsOf(s) # <<>>

\* the walk of a profile whose first stage has frequency 0 over a non-empty window
\* has returned with the events of the second stage only
C25_Witness ==
    /\ Finished("dosing")
    /\ Stages[1].frequency_per_week = 0 /\ Stages[1].day_start < Stages[1].day_end
    /\ EventsOf(1) = <<>>
    /\ Len(EventsOf(2)) >= 2

(***************************************************************************)
(* create_all_events_from_profile: the dosing walk, then the water change  *)
(* walk, on one store.  add_event inserts and commits one row per call and *)
(* catches nothing: an insert the database rejects raises out of the walk  *)
(* and out of the aggregate call, after the commits of the earlier rows.   *)
(***************************************************************************)
\* add_event raises: the row is not inserted, the walk and its caller end
AddEventRaises_Rollback ==
    /\ mat.pc = "while"
    /\ FloatLess(mat.current_day, Stages[mat.idx].day_end)
    /\ mat' = [mat EXCEPT !.pc = "raised",
                          !.store = SelectSeq(@, LAMBDA e : e.stage = 0)]
    /\ UNCHANGED schedVars

AddEventRaises ==
    /\ mat.pc = "while"
    /\ FloatLess(mat.current_day, Stages[mat.idx].day_end)
    /\ mat' = [mat EXCEPT !.pc = "raised"]
    /\ UNCHANGED schedVars

\* the water change walk that goes on with the list of the dosing walk
RunWaterWalk_KeepIds ==
    /\ mat.pc = "done" /\ mat.kind = "dosing"
    /\ mat' = [mat EXCEPT !.result.dosing_events = mat.event_ids,
                          !.kind = "water", !.pc = "for", !.idx = 0]
    /\ UNCHANGED schedVars

\* result['dosing_events'] = the list of the dosing walk; the water change walk
\* starts with its own empty list
RunWaterWalk ==
    /\ mat.pc = "done" /\ mat.kind = "dosing"
    /\ mat' = [mat EXCEPT !.result.dosing_events = mat.event_ids,
                          !.kind = "water", !.pc = "for", !.idx = 0, !.event_ids = <<>>]
    /\ UNCHANGED schedVars

\* result['water_change_events'] = the list of the water change walk; return result
ReturnAll ==
    /\ mat.pc = "done" /\ mat.kind = "water"
    /\ mat' = [mat EXCEPT !.result.water_change_events = mat.event_ids, !.pc = "returned"]
    /\ UNCHANGED schedVars

\* the profiles of the aggregate call: each section is missing, empty, or present
SmallFeeding ==
    { <<FeedingStage(0, b, f), FeedingStage(b, c, g)>> :
        b \in {0, 7}, c \in {7, 14}, f \in {0, 1, 2, 3}, g \in {0, 1, 7} }

SmallWater == { <<WaterStage(0, b, n)>> : b \in {0, 7}, n \in {2, 7} }

NutritionOptions ==
    {<<>>, "nutrition" :> <<>>}
        \cup {"nutrition" :> ("feeding_schedule" :> sch) : sch \in SmallFeeding}

WaterOptions ==
    {<<>>, "water_change_schedule" :> <<>>}
        \cup {"water_change_schedule" :> ("schedule" :> sch) : sch \in SmallWater}

\* an event that was in the store before the call
Earlier ==
    [event_type |-> "custom", stage |-> 0,
     scheduled_time |-> [day |-> 0, hour |-> 12, minute |-> 0],
     duration_minutes |-> 0, command_type |-> "", recurrence |-> "none", enabled |-> TRUE]

ProfileInit ==
    /\ devices = {}
    /\ schedules = [n \in Names |-> NoEntry]
    /\ order = <<>>
    /\ jobs = {}
    /\ threads = {}
    /\ timers = {}
    /\ nfires = 0
    /\ hist = <<>>
    /\ call = NoEntry
    /\ file = Document(schedules, order)
    /\ log = <<>>
    /\ clock = 0
    /\ pcs = AllIdle
    /\ \E tod \in StartTimes, n \in NutritionOptions, w \in WaterOptions,
          store \in {<<>>, <<Earlier>>} :
         mat = [kind |-> "dosing", profile |-> n @@ w, tod |-> tod, pc |-> "for", idx |-> 0,
                current_day |-> FromInt(0), step |-> FromInt(0), store |-> store,
                event_ids |-> <<>>,
                result |-> [dosing_events |-> <<>>, water_change_events |-> <<>>]]

ProfileNext ==
    \/ NextStage
    \/ LoopBody
    \/ LoopExit
    \/ AddEventRaises
    \/ RunWaterWalk
    \/ ReturnAll

SpecProfile == ProfileInit /\ [][ProfileNext]_vars

\* the events the call has added to the store, by type
Added(type) == SelectSeq(mat.store, LAMBDA e : e.stage >= 1 /\ e.event_type = type)

\* every id of the list is the id of a row of the store, of the given type
Persisted(ids, type) ==
    \A i \in 1..Len(ids) :
        /\ ids[i] \in 1..Len(mat.store)
        /\ mat.store[ids[i]].event_type = type /\ mat.store[ids[i]].stage >= 1

TypeOf(kind) == IF kind = "dosing" THEN "dosing" ELSE "water_change"

\* C24: every id in a walk's list, and every id in the result the call returns, is
\* the id of a row already in the store; and when the store rejects an insert,
\* the rows of all earlier inserts of the call are in the store: the ones of the
\* finished dosing walk and the ones of the walk that was running.
C24_BestEffortBatch ==
    /\ Persisted(mat.event_ids, TypeOf(mat.kind))
    /\ Persisted(mat.result.dosing_events, "dosing")
    /\ Persisted(mat.result.water_change_events, "water_change")
    /\ mat.pc = "raised" =>
         Len(Added(TypeOf(mat.kind))) = Len(mat.event_ids)
    /\ (mat.pc = "raised" /\ mat.kind = "water") =>
         Len(Added("dosing")) = Len(mat.result.dosing_events)

\* the store has rejected an insert of the water change walk after two of its
\* inserts and after the dosing walk
C24_Witness ==
    /\ mat.pc = "raised" /\ mat.kind = "water"
    /\ Len(mat.event_ids) >= 2 /\ Len(Added("water_change")) >= 2
    /\ Len(mat.result.dosing_events) >= 2 /\ Len(Added("dosing")) >= 2

\* C26: the walk of a missing section adds no event and does not raise, and the
\* call returns; its result has an empty list for the missing section and the
\* events of every stage with a non-empty window of the other section.
C26_MissingSectionIsEmpty ==
    /\ (mat.kind = "dosing" /\ FeedingMissing(mat.profile)) =>
          mat.pc \in {"for", "done"} /\ mat.event_ids = <<>>
    /\ (mat.kind = "water" /\ WaterMissing(mat.profile)) =>
          mat.pc \in {"for", "done", "returned"} /\ mat.event_ids = <<>>
    /\ mat.pc = "returned" =>
          /\ FeedingMissing(mat.profile) =>
                mat.result.dosing_events = <<>> /\ Added("dosing") = <<>>
          /\ WaterMissing(mat.profile) =>
                mat.result.water_change_events = <<>> /\ Added("water_change") = <<>>
          /\ \A s \in 1..Len(WaterSchedule(mat.profile)) :
                WaterSchedule(mat.profile)[s].day_start < WaterSchedule(mat.profile)[s].day_end
                  => \E i \in 1..Len(mat.store) :
                        mat.store[i].event_type = "water_change" /\ mat.store[i].stage = s
          /\ \A s \in 1..Len(FeedingSchedule(mat.profile)) :
                (/\ FeedingSchedule(mat.profile)[s].frequency_per_week > 0
                 /\ FeedingSchedule(mat.profile)[s].day_start
                      < FeedingSchedule(mat.profile)[s].day_end)
                  => \E i \in 1..Len(mat.store) :
                        mat.store[i].event_type = "dosing" /\ mat.store[i].stage = s

\* the call has returned for a profile without nutrition and with water changes
C26_Witness ==
    /\ mat.pc = "returned"
    /\ "nutrition" \notin DOMAIN mat.profile
    /\ mat.result.dosing_events = <<>>
    /\ Len(mat.result.water_change_events) >= 2

\* the call has returned for a profile whose water_change_schedule has no schedule
C26_WitnessWater ==
    /\ mat.pc = "returned"
    /\ "water_change_schedule" \in DOMAIN mat.profile /\ WaterMissing(mat.profile)
    /\ mat.result.water_change_events = <<>>
    /\ Len(mat.result.dosing_events) >= 2

\* C27: when the aggregate call returns, the list it returns under dosing_events
\* has one id for each dosing event the call added to the store and no other, and
\* the list under water_change_events one id for each water change event it added.
C27_CountsPerCategory ==
    mat.pc = "returned" =>
        /\ Len(mat.result.dosing_events) = Len(Added("dosing"))
        /\ Len(mat.result.water_change_events) = Len(Added("water_change"))
        /\ Persisted(mat.result.dosing_events, "dosing")
        /\ Persisted(mat.result.water_change_events, "water_change")
        /\ \A i, j \in 1..Len(mat.result.dosing_events) :
              i # j => mat.result.dosing_events[i] # mat.result.dosing_events[j]
        /\ \A i, j \in 1..Len(mat.result.water_change_events) :
              i # j => mat.result.water_change_events[i] # mat.result.water_change_events[j]

\* the call has returned different counts for the two categories, on a store that
\* held an event before
C27_Witness ==
    /\ mat.pc = "returned"
    /\ Len(mat.store) >= 1
    /\ mat.store[1] = Earlier
    /\ Len(mat.result.dosing_events) >= 3
    /\ Len(mat.result.water_change_events) >= 2
    /\ Len(mat.result.dosing_events) # Len(mat.result.water_change_events)

\* the fields the claim fixes, for an event the call has added
FixedFields(e, hour, minutes, command) ==
    /\ e.scheduled_time.hour = hour /\ e.scheduled_time.minute = 0
    /\ e.duration_minutes = minutes
    /\ e.command_type = command
    /\ e.recurrence = "none" /\ e.enabled = TRUE

\* C28 as stated: every dosing event the call adds is at 09:00 for 5 minutes with
\* command type "dose", every water change event at 10:00 for 15 minutes with
\* command type "drain-and-fill", all with recurrence none and enabled.
C28_FixedFieldsAsStated ==
    \A i \in 1..Len(mat.store) :
        LET e == mat.store[i]
        IN  /\ (e.stage >= 1 /\ e.event_type = "dosing") => FixedFields(e, 9, 5, "dose")
            /\ (e.stage >= 1 /\ e.event_type = "water_change")
                  => FixedFields(e, 10, 15, "drain-and-fill")

\* C28, amended: every dosing event the call adds is at 09:00 for 5 minutes with
\* command type "dose_food", every water change event at 10:00 for 15 minutes with
\* command type "drain_fill", all with recurrence none and enabled.
C28_FixedFields ==
    \A i \in 1..Len(mat.store) :
        LET e == mat.store[i]
        IN  /\ (e.stage >= 1 /\ e.event_type = "dosing") => FixedFields(e, 9, 5, "dose_food")
            /\ (e.stage >= 1 /\ e.event_type = "water_change")
                  => FixedFields(e, 10, 15, "drain_fill")

\* the call has returned with events of both kinds in the store
C28_Witness ==
    /\ mat.pc = "returned"
    /\ \E i \in 1..Len(mat.store) : mat.store[i].stage >= 1 /\ mat.store[i].event_type = "dosing"
    /\ \E i \in 1..Len(mat.store) :
          mat.store[i].stage >= 1 /\ mat.store[i].event_type = "water_change"

(***************************************************************************)
(* The two threads that use the registry.  The zeroconf listener runs      *)
(* add_service and remove_service, and with them the loops of device_added *)
(* and device_removed over self.schedules.items(), on the discovery        *)
(* thread; the operator's delete and re-save run on the main thread.  No   *)
(* lock is taken anywhere, so the threads interleave between statements.   *)
(* A dict iterator raises RuntimeError at its next step when the size of   *)
(* the dict has changed since the iterator was made.                       *)
(***************************************************************************)
Loop(pc, dev, i, size, name, details) ==
    [pc |-> pc, dev |-> dev, i |-> i, size |-> size, name |-> name, details |-> details]

\* add_service up to the `for` of device_added
disc_add_service(dev) ==
    /\ pcs.disc = Idle
    /\ dev \notin devices
    /\ devices' = devices \cup {dev}
    /\ pcs' = [pcs EXCEPT !.disc = Loop("device_added", dev, 0, Len(order), "", NoEntry)]
    /\ UNCHANGED <<schedules, order, jobs, threads, timers, nfires, hist, call, mat, file, log, clock>>

\* remove_service up to the `for` of device_removed
disc_remove_service(dev) ==
    /\ pcs.disc = Idle
    /\ dev \in devices
    /\ devices' = devices \ {dev}
    /\ pcs' = [pcs EXCEPT !.disc = Loop("device_removed", dev, 0, Len(order), "", NoEntry)]
    /\ UNCHANGED <<schedules, order, jobs, threads, timers, nfires, hist, call, mat, file, log, clock>>

\* the iterator's next step: RuntimeError, the end of the loop, or the next item
disc_next ==
    /\ pcs.disc.pc \in {"device_added", "device_removed"}
    /\ LET d == pcs.disc
       IN  IF Len(order) # d.size
           THEN /\ pcs' = [pcs EXCEPT !.disc = Idle]
                /\ call' = Op(d.pc, "", d.dev, 0, "RuntimeError", {}, {})
           ELSE IF d.i = d.size
           THEN /\ pcs' = [pcs EXCEPT !.disc = Idle]
                /\ call' = Op(d.pc, "", d.dev, 0, "ok", {}, {})
           ELSE /\ pcs' = [pcs EXCEPT !.disc =
                             Loop(IF d.pc = "device_added" THEN "added_body" ELSE "removed_body",
                                  d.dev, d.i + 1, d.size,
                                  order[d.i + 1], schedules[order[d.i + 1]])]
                /\ call' = call
    /\ UNCHANGED <<devices, schedules, order, jobs, threads, timers, nfires, hist, mat, file, log, clock>>

\* the body of the loop for the item the iterator gave: schedule_job in device_added,
\* remove_job (its failure is printed) in device_removed
disc_body ==
    /\ pcs.disc.pc \in {"added_body", "removed_body"}
    /\ LET d == pcs.disc
       IN  /\ jobs' = IF d.details.device_name # d.dev THEN jobs
                      ELSE IF d.pc = "added_body" THEN schedule_job(jobs, d.name, d.details)
                      ELSE remove_job(jobs, d.name)
           /\ pcs' = [pcs EXCEPT !.disc =
                        Loop(IF d.pc = "added_body" THEN "device_added" ELSE "device_removed",
                             d.dev, d.i, d.size, "", NoEntry)]
    /\ UNCHANGED <<devices, schedules, order, threads, timers, nfires, hist, call, mat, file, log, clock>>

\* do_delete_schedule: the test that the name is in the registry
main_delete(name) ==
    /\ pcs.main = Idle
    /\ schedules[name] # NoEntry
    /\ pcs' = [pcs EXCEPT !.main = [pc |-> "remove_job", name |-> name]]
    /\ UNCHANGED <<devices, schedules, order, jobs, threads, timers, nfires, hist, call, mat, file, log, clock>>

\* scheduler.remove_job(schedule_name) in its try
main_delete_remove_job ==
    /\ pcs.main.pc = "remove_job"
    /\ jobs' = remove_job(jobs, pcs.main.name)
    /\ pcs' = [pcs EXCEPT !.main.pc = "del"]
    /\ UNCHANGED <<devices, schedules, order, threads, timers, nfires, hist, call, mat, file, log, clock>>

\* del self.schedules[schedule_name]
main_delete_del ==
    /\ pcs.main.pc = "del"
    /\ schedules' = [schedules EXCEPT ![pcs.main.name] = NoEntry]
    /\ order' = SelectSeq(order, LAMBDA n : n # pcs.main.name)
    /\ pcs' = [pcs EXCEPT !.main.pc = "save_deleted"]
    /\ UNCHANGED <<devices, jobs, threads, timers, nfires, hist, call, mat, file, log, clock>>

\* save_schedules and the "deleted successfully" message
main_delete_save ==
    /\ pcs.main.pc = "save_deleted"
    /\ file' = save_schedules(schedules, order)
    /\ call' = Op("delete_schedule", pcs.main.name, "", 0, "deleted", {}, {})
    /\ pcs' = [pcs EXCEPT !.main = Idle]
    /\ UNCHANGED <<devices, schedules, order, jobs, threads, timers, nfires, hist, mat, log, clock>>

\* create_schedule for a name that is in the registry: the new definition is stored
\* under the name (the selected device is looked up in `devices` first)
main_save(name, dev, details) ==
    /\ pcs.main = Idle
    /\ dev \in devices
    /\ schedules[name] # NoEntry
    /\ schedules' = [schedules EXCEPT ![name] = details]
    /\ pcs' = [pcs EXCEPT !.main = [pc |-> "schedule_job", name |-> name]]
    /\ UNCHANGED <<devices, order, jobs, threads, timers, nfires, hist, call, mat, file, log, clock>>

\* schedule_job(name, self.schedules[name])
main_save_schedule_job ==
    /\ pcs.main.pc = "schedule_job"
    /\ jobs' = schedule_job(jobs, pcs.main.name, schedules[pcs.main.name])
    /\ pcs' = [pcs EXCEPT !.main.pc = "save_created"]
    /\ UNCHANGED <<devices, schedules, order, threads, timers, nfires, hist, call, mat, file, log, clock>>

\* save_schedules and the "scheduled" message
main_save_save ==
    /\ pcs.main.pc = "save_created"
    /\ file' = save_schedules(schedules, order)
    /\ call' = Op("create_schedule", pcs.main.name, "", 0, "scheduled", {}, {})
    /\ pcs' = [pcs EXCEPT !.main = Idle]
    /\ UNCHANGED <<devices, schedules, order, jobs, threads, timers, nfires, hist, mat, log, clock>>

\* the routine the operator saves again
FileRoutine == Details("podA", T1830, 0, "daily", None, ActRoutine)

\* two schedules of podA are in the registry; podA is known (and its jobs are in
\* the job store) or not yet
RaceInit ==
    /\ devices \in {{}, {"podA"}}
    /\ order = <<"s1", "s2">>
    /\ schedules = [n \in Names |-> IF n \in {"s1", "s2"} THEN FileInstant ELSE NoEntry]
    /\ jobs = IF "podA" \in devices
              THEN {JobOf("s1", FileInstant), JobOf("s2", FileInstant)} ELSE {}
    /\ threads = {}
    /\ timers = {}
    /\ nfires = 0
    /\ hist = <<>>
    /\ call = Op("init", "", "", 0, "ok", {}, {})
    /\ mat = MatIdle
    /\ file = Document(schedules, order)
    /\ log = <<>>
    /\ clock = 0
    /\ pcs = AllIdle

RaceNext ==
    \/ disc_add_service("podA")
    \/ disc_remove_service("podA")
    \/ disc_next
    \/ disc_body
    \/ \E n \in {"s1", "s2"} : main_delete(n)
    \/ main_delete_remove_job
    \/ main_delete_del
    \/ main_delete_save
    \/ \E n \in {"s1", "s2"} : main_save(n, "podA", FileRoutine)
    \/ main_save_schedule_job
    \/ main_save_save

SpecRace == RaceInit /\ [][RaceNext]_vars

\* C29: for every interleaving of the operator's delete or re-save of a name with
\* device_added / device_removed, no operation ends with an error, and when both
\* threads are outside their handlers every job in the job store belongs to a name
\* that is in the registry.
C29_SerializedPerName ==
    /\ call.status # "RuntimeError"
    /\ pcs = AllIdle => \A j \in jobs : schedules[j.id] # NoEntry

(***************************************************************************)
(* Saving to a file that cannot be written.  save_schedules catches the    *)
(* exception of open / json.dump, prints "Error saving schedules" and      *)
(* returns None like a successful save; its callers do not look at the     *)
(* file afterwards.                                                        *)
(***************************************************************************)
\* schedules.json becomes unwritable (its permissions, a read-only volume)
DiskFails ==
    /\ ~Unwritable(file)
    /\ file' = [schedules |-> file.schedules, order |-> file.order, unwritable |-> TRUE]
    /\ UNCHANGED <<devices, schedules, order, jobs, threads, timers, nfires, hist, call, mat, log, clock, pcs>>

DiskRecovers ==
    /\ Unwritable(file)
    /\ file' = Document(file.schedules, file.order)
    /\ UNCHANGED <<devices, schedules, order, jobs, threads, timers, nfires, hist, call, mat, log, clock, pcs>>

\* schedule_actuators with `dev` selected: "already exists" for a known name; else
\* the definition is stored, schedule_job and save_schedules are called and "has
\* been set successfully" is printed
do_schedule_actuators(name, dev, details) ==
    /\ dev \in devices
    /\ IF schedules[name] # NoEntry
       THEN /\ call' = Op("schedule_actuators", name, dev, 0, "exists", {}, {})
            /\ UNCHANGED <<schedules, order, jobs, file>>
       ELSE /\ Store(name, details)
            /\ jobs' = schedule_job(jobs, name, details)
            /\ file' = save_schedules(schedules', order')
            /\ call' = Op("schedule_actuators", name, dev, 0, "set", {}, {})
    /\ UNCHANGED <<devices, threads, timers, nfires, hist, mat, log, clock, pcs>>

SaveNext ==
    \/ \E dev \in Devices : add_service(dev)
    \/ \E dev \in Devices : remove_service(dev)
    \/ \E n \in {"s1", "s2"} : do_delete_schedule(n)
    \/ \E n \in {"s1", "s2"}, d \in ExecDefs : do_schedule_actuators(n, "podA", d)
    \/ DiskFails
    \/ DiskRecovers

SpecSave == RegistryInit /\ [][SaveNext]_vars

\* C30: when the file cannot be written, an operation that has registered or
\* deleted a schedule does not report success ("has been set successfully",
\* "has been deleted successfully").
C30_SaveFailureSurfaced ==
    [][(schedules' # schedules /\ Unwritable(file)
          /\ call'.op \in {"schedule_actuators", "delete_schedule"})
         => call'.status \notin {"set", "deleted"}]_vars

(***************************************************************************)
(* The event store of calendar_scheduler.py: the tables calendar_events    *)
(* and event_execution_log of one SQLite database.  event_id is an         *)
(* AUTOINCREMENT key, so an id is never given twice.  The log's event_id   *)
(* is declared FOREIGN KEY ... REFERENCES calendar_events(event_id) with   *)
(* no ON DELETE action, and no connection sets PRAGMA foreign_keys: the    *)
(* constraint is enforced or not as the SQLite build decides (off in the   *)
(* standard build).  Enforced, a DELETE of a referenced event and an       *)
(* INSERT of a log row for an unknown event raise IntegrityError.          *)
(***************************************************************************)
MaxEvents == 2

MaxLog == 2

\* the event_id of a log row that names no event (NULL)
NullId == 0

\* a datetime: the day counted from the first day of the model, and the time of day
Time(day, hour, minute, micro) == [day |-> day, hour |-> hour, minute |-> minute, micro |-> micro]

\* datetime.isoformat(): the zero-padded fields from the left, and the microseconds
\* only when they are not 0
isoformat(t) ==
    <<t.day, t.hour, t.minute>> \o (IF t.micro # 0 THEN <<t.micro>> ELSE <<>>)

\* the comparison of two TEXT values: from the left, a proper prefix is the smaller
RECURSIVE TextLessEq(_, _)
TextLessEq(a, b) ==
    IF a = <<>> THEN TRUE
    ELSE IF b = <<>> THEN FALSE
    ELSE IF Head(a) # Head(b) THEN Head(a) < Head(b)
    ELSE TextLessEq(Tail(a), Tail(b))

\* the scheduled times of the model: midnight and 09:00 of the first day, midnight
\* of the second day and the microsecond after it
EventTimes == {Time(0, 0, 0, 0), Time(0, 9, 0, 0), Time(1, 0, 0, 0), Time(1, 0, 0, 1)}

StoreOf(events, seq, fk) == [phase |-> "store", events |-> events, seq |-> seq, foreign_keys |-> fk]

EventIds(events) == {e.event_id : e \in events}

Referenced(rows) == {rows[i].event_id : i \in 1..Len(rows)}

\* add_event: INSERT with the next id of the AUTOINCREMENT sequence
AddEvent(dev, t) ==
    /\ mat.seq < MaxEvents
    /\ mat' = [mat EXCEPT !.events = @ \cup {[event_id |-> mat.seq + 1, device_name |-> dev,
                                              scheduled_time |-> t]},
                          !.seq = @ + 1]
    /\ UNCHANGED <<schedVars>>

\* update_event of an event with an id: UPDATE ... WHERE event_id = ?
UpdateEvent(id, dev, t) ==
    /\ id \in EventIds(mat.events)
    /\ mat' = [mat EXCEPT !.events = {IF e.event_id = id
                                      THEN [event_id |-> id, device_name |-> dev,
                                            scheduled_time |-> t]
                                      ELSE e : e \in @}]
    /\ UNCHANGED <<schedVars>>

\* DELETE FROM calendar_events for the rows `gone`: with the constraint enforced
\* and a log row that references one of them, the statement raises and deletes
\* nothing; else the rows are deleted, and the log is not touched
Delete(gone) ==
    /\ mat' = IF mat.foreign_keys /\ EventIds(gone) \cap Referenced(log) # {}
              THEN mat
              ELSE [mat EXCEPT !.events = @ \ gone]
    /\ UNCHANGED <<schedVars>>

DeleteEvent(id) ==
    /\ id \in 1..mat.seq
    /\ Delete({e \in mat.events : e.event_id = id})

\* delete_all_events(device_name), and delete_all_events() when dev is None
DeleteAllEvents(dev) ==
    Delete({e \in mat.events : dev = None \/ e.device_name = dev})

\* log_execution: INSERT into event_execution_log; with the constraint enforced a
\* row for an id that is not in calendar_events raises
LogExecution(id, success) ==
    /\ Len(log) < MaxLog
    /\ ~(mat.foreign_keys /\ id # NullId /\ id \notin EventIds(mat.events))
    /\ log' = log_execution(log, id, success)
    /\ UNCHANGED <<devices, schedules, order, jobs, threads, timers, nfires, hist, call, mat, file, clock, pcs>>

\* get_execution_log(event_id): the rows of the event, the newest first
get_execution_log(id) ==
    LET rows == SelectSeq(log, LAMBDA r : r.event_id = id)
    IN  [i \in 1..Len(rows) |-> rows[Len(rows) + 1 - i]]

\* the rows of `events` in the order of ORDER BY scheduled_time (rows with equal
\* text in the order of their ids)
RECURSIVE OrderBy(_)
OrderBy(events) ==
    IF events = {} THEN <<>>
    ELSE LET first == CHOOSE e \in events :
                        \A o \in events :
                            \/ ~TextLessEq(isoformat(o.scheduled_time), isoformat(e.scheduled_time))
                            \/ (/\ TextLessEq(isoformat(e.scheduled_time), isoformat(o.scheduled_time))
                                /\ e.event_id <= o.event_id)
         IN  <<first>> \o OrderBy(events \ {first})

\* get_events_for_device(device_name, start_date, end_date) with both dates given
get_events_for_device(dev, start, end) ==
    OrderBy({e \in mat.events :
                /\ e.device_name = dev
                /\ TextLessEq(isoformat(start), isoformat(e.scheduled_time))
                /\ TextLessEq(isoformat(e.scheduled_time), isoformat(end))})

\* get_events_for_date: from midnight of the date to midnight of the next day
get_events_for_date(dev, day) ==
    get_events_for_device(dev, Time(day, 0, 0, 0), Time(day + 1, 0, 0, 0))

StoreInit ==
    /\ devices = {}
    /\ schedules = [n \in Names |-> NoEntry]
    /\ order = <<>>
    /\ jobs = {}
    /\ threads = {}
    /\ timers = {}
    /\ nfires = 0
    /\ hist = <<>>
    /\ call = NoEntry
    /\ file = Document(schedules, order)
    /\ log = <<>>
    /\ clock = 0
    /\ pcs = AllIdle
    /\ \E fk \in BOOLEAN : mat = StoreOf({}, 0, fk)

StoreNext ==
    \/ \E dev \in Devices, t \in EventTimes : AddEvent(dev, t)
    \/ \E id \in 1..MaxEvents, dev \in Devices, t \in EventTimes : UpdateEvent(id, dev, t)
    \/ \E id \in 1..MaxEvents : DeleteEvent(id)
    \/ \E dev \in Devices \cup {None} : DeleteAllEvents(dev)
    \/ \E id \in 0..MaxEvents, success \in BOOLEAN : LogExecution(id, success)

SpecStore == StoreInit /\ [][StoreNext]_vars

\* C31: no step of the store changes or removes a row of the execution log, except
\* that a step which deletes an event removes the rows that reference it: the rows
\* of the other events stay as they are, and no row of a deleted event is left.
C31_LogAppendOnly ==
    [][LET gone == EventIds(mat.events) \ EventIds(mat'.events)
       IN  /\ \A i \in 1..Len(log) :
                 log[i].event_id \notin gone => \E j \in 1..Len(log') : log'[j] = log[i]
           /\ \A j \in 1..Len(log') : log'[j].event_id \notin gone]_vars

\* the order of two datetimes
TimeLessEq(a, b) ==
    LET ka == <<a.day, a.hour, a.minute, a.micro>>
        kb == <<b.day, b.hour, b.minute, b.micro>>
    IN  \/ ka = kb
        \/ \E i \in 1..4 : ka[i] < kb[i] /\ \A k \in 1..(i - 1) : ka[k] = kb[k]

Range(s) == {s[i] : i \in 1..Len(s)}

\* C39: get_events_for_date returns a stored event of the device for the date of
\* its scheduled_time and for no other date; and get_events_for_device returns
\* exactly the device's events with start <= scheduled_time <= end, in
\* non-decreasing order of scheduled_time.
C39_DatesPartitionEvents ==
    /\ \A e \in mat.events : \A day \in 0..2 :
          (e \in Range(get_events_for_date(e.device_name, day))) <=> (day = e.scheduled_time.day)
    /\ \A dev \in Devices, start \in EventTimes, end \in EventTimes :
          LET res == get_events_for_device(dev, start, end)
          IN  /\ Range(res) = {e \in mat.events :
                                  /\ e.device_name = dev
                                  /\ TimeLessEq(start, e.scheduled_time)
                                  /\ TimeLessEq(e.scheduled_time, end)}
              /\ Len(res) = Cardinality(Range(res))
              /\ \A i \in 1..(Len(res) - 1) :
                    TimeLessEq(res[i].scheduled_time, res[i + 1].scheduled_time)

\* C40: every row of the execution log with an event_id refers to an event that
\* is in the store, and get_execution_log returns no row for an id whose event
\* has been deleted.
C40_ReferentialIntegrity ==
    /\ \A i \in 1..Len(log) :
          log[i].event_id # NullId => log[i].event_id \in EventIds(mat.events)
    /\ \A id \in 1..mat.seq :
          id \notin EventIds(mat.events) => get_execution_log(id) = <<>>

\* the retry timers pending for schedule `name`
RetryTimers(name) == {tm \in timers : tm.kind = "retry" /\ tm.args.name = name}

\* C32: at most one retry timer is pending per schedule name, however often the
\* schedule fires while its device is absent.
C32_OneRetryTimerPerName ==
    \A n \in Names : Cardinality(RetryTimers(n)) <= 1

(***************************************************************************)
(* The routine tab: create_schedule with what the operator can enter. The  *)
(* day drop-down is a ttk.Combobox that the Weekly radio button puts in    *)
(* state "normal", in which its text can be edited.                        *)
(***************************************************************************)
\* the texts of the time entry and of the day drop-down the model follows
TabTimes == {T0900, T9am}

TabDays == {"Monday", "Funday", ""}

\* create_schedule from its entry fields: the time is checked with strptime (an error box and return
\* when it fails); the definition is stored, handed to schedule_job and saved, and
\* the "Success" box is shown. `call` keeps the definition and how schedule_job
\* ended.
create_schedule_form(name, dev, time, freq, day) ==
    /\ dev \in devices
    /\ IF strptime(time) = ValueError
       THEN /\ call' = [op |-> "create_schedule", name |-> name, details |-> NoEntry,
                        result |-> "error_box"]
            /\ UNCHANGED <<schedules, order, jobs, file>>
       ELSE LET d == Details(dev, time, 0, freq, IF freq = "weekly" THEN day ELSE None, ActRoutine)
            IN  /\ Store(name, d)
                /\ jobs' = schedule_job(jobs, name, d)
                /\ file' = save_schedules(schedules', order')
                /\ call' = [op |-> "create_schedule", name |-> name, details |-> d,
                            result |-> ScheduleJobResult(d)]
    /\ UNCHANGED <<devices, threads, timers, nfires, hist, mat, log, clock, pcs>>

TabNext ==
    \/ \E dev \in Devices : AddService(dev)
    \/ \E dev \in Devices : RemoveService(dev)
    \/ \E n \in {"s1", "s2"}, dev \in Devices, time \in TabTimes, freq \in {"daily", "weekly"}, day \in TabDays :
          create_schedule_form(n, dev, time, freq, day)
    \/ \E n \in Names : DeleteSchedule(n)

SpecTab == Init /\ [][TabNext]_vars

\* the call of schedule_job ended in one of its two "Skipping." returns
Rejected(c) == c # NoEntry /\ c.result \in {"invalid_time", "invalid_day"}

\* C33: after an operation in which schedule_job rejected the definition, the
\* definition is neither in the registry nor in schedules.json.
C33_RejectedNotRegistered ==
    Rejected(call) =>
        /\ schedules[call.name] # call.details
        /\ file.schedules[call.name] # call.details

(***************************************************************************)
(* Termination of the two walks, with steps of 0 days.  The store of a     *)
(* walk that never ends grows without bound: the model keeps its first     *)
(* MaxStore rows and the parity of the number of turns of the loop.        *)
(***************************************************************************)
MaxStore == 4

MaxLoopDay == 3

LoopFeedingSchedules ==
    { <<FeedingStage(a, b, f), FeedingStage(b, c, g)>> :
        a \in 0..MaxLoopDay, b \in 0..MaxLoopDay, c \in 0..MaxLoopDay, f \in 0..2, g \in {0, 7} }

LoopWaterSchedules ==
    { <<WaterStage(a, b, n), WaterStage(b, c, k)>> :
        a \in 0..MaxLoopDay, b \in 0..MaxLoopDay, c \in 0..MaxLoopDay, n \in 0..2, k \in {0, 1} }

\* one turn of `while current_day < day_end`: add_event, then advance
LoopTurn ==
    /\ mat.pc = "while"
    /\ FloatLess(mat.current_day, Stages[mat.idx].day_end)
    /\ mat' = [mat EXCEPT
                 !.store = IF Len(@) < MaxStore
                           THEN Append(@, IF mat.kind = "dosing"
                                          THEN DosingEvent(mat.idx, mat.current_day)
                                          ELSE WaterEvent(mat.idx, mat.current_day))
                           ELSE @,
                 !.event_ids = IF Len(@) < MaxStore THEN Append(@, Len(mat.store) + 1) ELSE @,
                 !.current_day = FloatAdd(@, mat.step),
                 !.turn = 1 - @]
    /\ UNCHANGED schedVars

LoopWalk(kind, profile, tod) ==
    [kind |-> kind, profile |-> profile, tod |-> tod, pc |-> "for", idx |-> 0,
     current_day |-> FromInt(0), step |-> FromInt(0), store |-> <<>>, event_ids |-> <<>>,
     turn |-> 0]

LoopInit ==
    /\ devices = {}
    /\ schedules = [n \in Names |-> NoEntry]
    /\ order = <<>>
    /\ jobs = {}
    /\ threads = {}
    /\ timers = {}
    /\ nfires = 0
    /\ hist = <<>>
    /\ call = NoEntry
    /\ file = Document(schedules, order)
    /\ log = <<>>
    /\ clock = 0
    /\ pcs = AllIdle
    /\ \E tod \in StartTimes :
         \/ \E sch \in LoopFeedingSchedules :
              /\ Ordered(sch)
              /\ mat = LoopWalk("dosing", [nutrition |-> [feeding_schedule |-> sch]], tod)
         \/ \E sch \in LoopWaterSchedules :
              /\ Ordered(sch)
              /\ mat = LoopWalk("water", [water_change_schedule |-> [schedule |-> sch]], tod)

LoopNext == NextStage \/ LoopTurn \/ LoopExit

\* the walk runs on the thread of its caller: it takes its next step as long as it
\* has one
SpecLoop == LoopInit /\ [][LoopNext]_vars /\ WF_vars(LoopNext)

\* C34: every walk reaches its return.
C34_WalkTerminates == <>(mat.pc = "done")

\* C35: every job of the scheduler belongs to a registered schedule whose device
\* is in `devices`.
C35_JobsOnlyForKnownDevices ==
    \A j \in jobs : j.id \in Registered /\ schedules[j.id].device_name \in devices

\* the arguments a dispatch of `name` takes from the definition `d`
ArgsOf(name, d) ==
    [name |-> name, device_name |-> d.device_name, actions |-> d.actions,
     duration |-> d.duration_minutes]

\* thread t sends its actions in this step
Dispatches(t) ==
    /\ t \in threads /\ t.pc = "dispatch" /\ t \notin threads'
    /\ hist'[t.fire].dispatched = hist[t.fire].dispatched + 1

\* C36: a dispatch that a retry timer started sends the actions, to the device and
\* with the duration, of the definition that is registered under the schedule's
\* name when it is sent: after a re-registration no old command is sent.
C36_DispatchUsesCurrentDefinition ==
    [][\A t \in threads :
          (Dispatches(t) /\ t.origin = "timer" /\ schedules[t.args.name] # NoEntry)
              => t.args = ArgsOf(t.args.name, schedules[t.args.name])]_vars

\* C37: after apply_schedule with N intervals the food schedules are exactly
\* food_dose_1 .. food_dose_N, each with the new definition and a job; no other
\* food_dose_k keeps a definition or a job.
C37_FoodScheduleReplaced ==
    (call # NoEntry /\ call.op = "apply_schedule") =>
        \A k \in 1..Cardinality(FoodNames) :
            IF k <= call.n
            THEN /\ schedules[FoodName(k)] = FoodDef(call.dev, k - 1, call.n, 1000)
                 /\ HasJob(jobs, FoodName(k))
            ELSE /\ schedules[FoodName(k)] = NoEntry
                 /\ ~HasJob(jobs, FoodName(k))

(***************************************************************************)
(* schedules.json as text: json.dump writes a dict as an object with its   *)
(* keys in insertion order, None as null, str and int as string and        *)
(* number; json.load reads them back.                                      *)
(***************************************************************************)
JNull == [t |-> "null"]

JStr(s) == [t |-> "string", v |-> s]

JNum(n) == [t |-> "number", v |-> n]

JObj(keys, members) == [t |-> "object", keys |-> keys, v |-> members]

\* the JSON value of an action's parameters: 'command' is a str, the others are int
json_dump_action(params) ==
    JObj(<<>>, [k \in DOMAIN params |-> IF k = "command" THEN JStr(params[k]) ELSE JNum(params[k])])

json_dump_details(d) ==
    JObj(<<>>,
         [device_name |-> JStr(d.device_name),
          start_time |-> JStr(d.start_time),
          duration_minutes |-> JNum(d.duration_minutes),
          frequency |-> JStr(d.frequency),
          day_of_week |-> IF d.day_of_week = None THEN JNull ELSE JStr(d.day_of_week),
          actions |-> JObj(<<>>, [a \in DOMAIN d.actions |-> json_dump_action(d.actions[a])])])

\* json.dump(self.schedules, f): the members are the keys of the dict
json_dump(reg, ord) ==
    JObj(ord, [n \in Range(ord) |-> json_dump_details(reg[n])])

\* json.load of one value; the members of an object lose nothing
RECURSIVE json_load_value(_)
json_load_value(j) ==
    CASE j.t = "null" -> None
      [] j.t = "object" -> [k \in DOMAIN j.v |-> json_load_value(j.v[k])]
      [] OTHER -> j.v

\* self.schedules = json.load(f), as a registry and the order of its keys
json_load(j) ==
    Document([n \in Names |-> IF n \in DOMAIN j.v THEN json_load_value(j.v[n]) ELSE NoEntry],
             j.keys)

====
